---- MODULE Spec2Model ----
(***************************************************************************)
(* Model of the slidev-ai core: the layout heuristics, the score function, *)
(* the cleanup of generated text, the deck operations and the edit         *)
(* orchestrator (SlidevAIOrchestrator).                                    *)
(*                                                                         *)
(* Text is modelled as a sequence of one-character strings, so that the    *)
(* regular expressions of the source are computed character by character. *)
(* Positions are 1-based; an index of 0 stands for "no match".             *)
(***************************************************************************)
EXTENDS Integers, Sequences, FiniteSets, TLC

MinOf(S) == CHOOSE x \in S : \A y \in S : x <= y
MaxOf(S) == CHOOSE x \in S : \A y \in S : x >= y

(* An optional field (undefined in the source) is <<>>, a defined one <<v>>. *)
None == <<>>
Some(v) == <<v>>

(***************************************************************************)
(* Character classes of the JavaScript regular expressions.                *)
(***************************************************************************)
IsSpace(c) == c \in {" ", "\n", "\t", "\r"}
IsLineTerminator(c) == c \in {"\n", "\r"}
IsHash(c) == c = "#"
IsDigit(c) == c \in {"0", "1", "2", "3", "4", "5", "6", "7", "8", "9"}
LowerAlpha == <<"a", "b", "c", "d", "e", "f", "g", "h", "i", "j", "k", "l", "m",
                "n", "o", "p", "q", "r", "s", "t", "u", "v", "w", "x", "y", "z">>
UpperAlpha == <<"A", "B", "C", "D", "E", "F", "G", "H", "I", "J", "K", "L", "M",
                "N", "O", "P", "Q", "R", "S", "T", "U", "V", "W", "X", "Y", "Z">>
IsLetter(c) == \E i \in 1..Len(LowerAlpha) : c = LowerAlpha[i] \/ c = UpperAlpha[i]
IsWord(c) == IsLetter(c) \/ IsDigit(c) \/ c = "_"
ToLowerChar(c) ==
    IF \E i \in 1..Len(UpperAlpha) : c = UpperAlpha[i]
    THEN LowerAlpha[CHOOSE i \in 1..Len(UpperAlpha) : c = UpperAlpha[i]]
    ELSE c
ToLower(s) == [i \in 1..Len(s) |-> ToLowerChar(s[i])]

(***************************************************************************)
(* String primitives (String.prototype.trim, startsWith, indexOf, split).  *)
(***************************************************************************)
Trim(s) ==
    LET ns == {i \in 1..Len(s) : ~IsSpace(s[i])}
    IN  IF ns = {} THEN <<>> ELSE SubSeq(s, MinOf(ns), MaxOf(ns))

MatchAt(s, p, i) ==
    /\ i >= 1
    /\ i + Len(p) - 1 <= Len(s)
    /\ \A k \in 1..Len(p) : s[i + k - 1] = p[k]

StartsWith(s, p) == MatchAt(s, p, 1)
EndsWith(s, p) == MatchAt(s, p, Len(s) - Len(p) + 1)

(* first position >= from where p occurs in s, 0 when there is none *)
IndexOf(s, p, from) ==
    LET hits == {i \in from..(Len(s) - Len(p) + 1) : MatchAt(s, p, i)}
    IN  IF hits = {} THEN 0 ELSE MinOf(hits)

Includes(s, p) == IndexOf(s, p, 1) # 0

(* first position >= i whose character is not in class P, Len(s)+1 if none *)
RunEnd(s, i, P(_)) ==
    LET stop == {k \in i..Len(s) : ~P(s[k])}
    IN  IF stop = {} THEN Len(s) + 1 ELSE MinOf(stop)

IsLineStart(s, i) == i = 1 \/ (i > 1 /\ i <= Len(s) + 1 /\ IsLineTerminator(s[i - 1]))

RECURSIVE SplitOn(_, _)
SplitOn(s, sep) ==
    LET i == IndexOf(s, sep, 1)
    IN  IF i = 0 THEN <<s>>
        ELSE <<SubSeq(s, 1, i - 1)>> \o SplitOn(SubSeq(s, i + Len(sep), Len(s)), sep)

RECURSIVE JoinWith(_, _)
JoinWith(parts, sep) ==
    IF parts = <<>> THEN <<>>
    ELSE IF Len(parts) = 1 THEN parts[1]
    ELSE parts[1] \o sep \o JoinWith(Tail(parts), sep)

(* U+0060 cannot be written inside a TLA+ string: BT stands for that character *)
BT == "BACKTICK"
Fence == <<BT, BT, BT>>
Dashes == <<"-", "-", "-">>
NL == <<"\n">>
MermaidWord == <<"m", "e", "r", "m", "a", "i", "d">>
MermaidOpen == Fence \o MermaidWord

(***************************************************************************)
(* Regular-expression replacements shared by the layout checks.            *)
(***************************************************************************)

(* .replace(/^---[\s\S]*?---\n?/, '') : a leading frontmatter block *)
StripFrontmatter(s) ==
    IF ~StartsWith(s, Dashes) THEN s
    ELSE LET j == IndexOf(s, Dashes, 4)
         IN  IF j = 0 THEN s
             ELSE LET e == j + 3
                  IN  SubSeq(s, IF e <= Len(s) /\ s[e] = "\n" THEN e + 1 ELSE e, Len(s))

(* .replace(/<open>[\s\S]*?<fence>/g, '') : every block from open to the next fence *)
RECURSIVE RemoveDelimited(_, _)
RemoveDelimited(s, open) ==
    LET i == IndexOf(s, open, 1)
        j == IF i = 0 THEN 0 ELSE IndexOf(s, Fence, i + Len(open))
    IN  IF j = 0 THEN s
        ELSE SubSeq(s, 1, i - 1) \o RemoveDelimited(SubSeq(s, j + 3, Len(s)), open)

RemoveCodeBlocks(s) == RemoveDelimited(s, Fence)

(* /!\[[^\]]*\]\([^)]+\)/ at position i: the position of its closing ")" or 0 *)
ImageEnd(s, i) ==
    IF ~MatchAt(s, <<"!", "[">>, i) THEN 0
    ELSE LET k == IndexOf(s, <<"]">>, i + 2)
         IN  IF k = 0 \/ ~MatchAt(s, <<"(">>, k + 1) THEN 0
             ELSE LET m == IndexOf(s, <<")">>, k + 2)
                  IN  IF m = 0 \/ m = k + 2 THEN 0 ELSE m

RECURSIVE RemoveImagesFrom(_, _)
RemoveImagesFrom(s, i) ==
    LET starts == {k \in i..Len(s) : ImageEnd(s, k) # 0}
    IN  IF starts = {} THEN SubSeq(s, i, Len(s))
        ELSE SubSeq(s, i, MinOf(starts) - 1)
             \o RemoveImagesFrom(s, ImageEnd(s, MinOf(starts)) + 1)

RemoveImages(s) == RemoveImagesFrom(s, 1)

(* /^#+\s*/gm at position i: the position after the match, or 0 *)
HeaderEnd(s, i) ==
    IF i <= Len(s) /\ IsLineStart(s, i) /\ s[i] = "#"
    THEN RunEnd(s, RunEnd(s, i, IsHash), IsSpace)
    ELSE 0

RECURSIVE RemoveHeadersFrom(_, _)
RemoveHeadersFrom(s, i) ==
    LET starts == {k \in i..Len(s) : HeaderEnd(s, k) # 0}
    IN  IF starts = {} THEN SubSeq(s, i, Len(s))
        ELSE SubSeq(s, i, MinOf(starts) - 1)
             \o RemoveHeadersFrom(s, HeaderEnd(s, MinOf(starts)))

RemoveHeaders(s) == RemoveHeadersFrom(s, 1)

IsFormatting(c) == c \in {"*", "_", BT, "~"}
RemoveFormatting(s) == SelectSeq(s, LAMBDA c : ~IsFormatting(c))

(***************************************************************************)
(* Layout heuristics (layoutHeuristic module).  A LayoutIssue is a record  *)
(* [type, severity, slideIndex, message, suggestion, meta]; the message    *)
(* keeps the numbers the source interpolates into its text.  A check that  *)
(* returns LayoutIssue | null returns a sequence of zero or one issue.     *)
(***************************************************************************)
DEFAULT_CONFIG == [maxCharsPerSlide |-> 600, maxBulletsPerSlide |-> 6]

(* { ...DEFAULT_CONFIG, ...config } for a partial config *)
MergeConfig(config) ==
    [k \in DOMAIN DEFAULT_CONFIG |->
        IF k \in DOMAIN config THEN config[k] ELSE DEFAULT_CONFIG[k]]

Issue(type, severity, slide, message, suggestion, meta) ==
    [type |-> type, severity |-> severity, slideIndex |-> slide.index,
     message |-> message, suggestion |-> suggestion, meta |-> meta]

(* the text checkEmptySlide measures *)
EmptyCheckText(content) ==
    Trim(RemoveFormatting(RemoveHeaders(RemoveImages(RemoveCodeBlocks(
        Trim(StripFrontmatter(content)))))))

checkEmptySlide_rawLength(slide) ==
    IF Len(Trim(slide.content)) < 10
    THEN <<Issue("empty-slide", "warning", slide,
                 <<"Slide appears to be empty or has minimal content">>,
                 "Add meaningful content or consider removing this slide",
                 <<"charCount", Len(Trim(slide.content))>>)>>
    ELSE <<>>

checkEmptySlide(slide) ==
    LET textOnly == EmptyCheckText(slide.content)
    IN  IF Len(textOnly) < 10
        THEN <<Issue("empty-slide", "warning", slide,
                     <<"Slide appears to be empty or has minimal content">>,
                     "Add meaningful content or consider removing this slide",
                     <<"charCount", Len(textOnly)>>)>>
        ELSE <<>>

noTitleLayouts == {"cover", "intro", "center", "quote", "image", "end"}

(* /^#{1,3}\s+.+/m.test(content) *)
HasHeading(s) ==
    \E i \in 1..Len(s) :
        /\ IsLineStart(s, i)
        /\ \E k \in 1..3 :
            /\ \A h \in i..(i + k - 1) : h <= Len(s) /\ s[h] = "#"
            /\ \E p \in (i + k + 1)..Len(s) :
                /\ \A w \in (i + k)..(p - 1) : IsSpace(s[w])
                /\ ~IsLineTerminator(s[p])

checkMissingTitle(slide) ==
    IF slide.layout # None /\ slide.layout[1] # "" /\ slide.layout[1] \in noTitleLayouts
    THEN <<>>
    ELSE IF ~HasHeading(slide.content)
    THEN <<Issue("missing-title", "info", slide,
                 <<"Slide is missing a title or heading">>,
                 "Add a heading to improve slide structure", <<>>)>>
    ELSE <<>>

(* line.replace(/^[-*+]\s*/, '').trim() *)
IsBulletMarker(c) == c \in {"-", "*", "+"}
CleanLine(line) ==
    Trim(IF line # <<>> /\ IsBulletMarker(line[1])
         THEN SubSeq(line, RunEnd(line, 2, IsSpace), Len(line))
         ELSE line)

TextLengthText(content) ==
    Trim(StripFrontmatter(RemoveImages(RemoveCodeBlocks(content))))

checkTextLength(slide, config) ==
    LET textContent == TextLengthText(slide.content)
        charCount == Len(textContent)
        lines == SplitOn(textContent, NL)
        longLines == {i \in 1..Len(lines) : Len(CleanLine(lines[i])) > 100}
    IN  (IF charCount > config.maxCharsPerSlide
         THEN <<Issue("too-long-text",
                      IF 2 * charCount > 3 * config.maxCharsPerSlide
                      THEN "error" ELSE "warning",
                      slide,
                      <<"Slide has characters", charCount, config.maxCharsPerSlide>>,
                      "Shorten text, use bullet points, or split into multiple slides",
                      <<"charCount", charCount>>)>>
         ELSE <<>>)
        \o
        (IF Cardinality(longLines) > 0
         THEN <<Issue("too-long-text", "info", slide,
                      <<"line(s) exceed recommended length", Cardinality(longLines)>>,
                      "Break long lines into shorter phrases or bullet points", <<>>)>>
         ELSE <<>>)

(* /^[\s]*[-*+]|\d+\./gm at position i: the position after the match, or 0 *)
BulletMatchEnd(s, i) ==
    LET w == RunEnd(s, i, IsSpace)
        d == RunEnd(s, i, IsDigit)
    IN  IF IsLineStart(s, i) /\ w <= Len(s) /\ IsBulletMarker(s[w]) THEN w + 1
        ELSE IF d > i /\ d <= Len(s) /\ s[d] = "." THEN d + 1
        ELSE 0

(* content.match(bulletPattern).length, scanning from position i *)
RECURSIVE CountBulletsFrom(_, _)
CountBulletsFrom(s, i) ==
    LET starts == {k \in i..Len(s) : BulletMatchEnd(s, k) # 0}
    IN  IF starts = {} THEN 0
        ELSE 1 + CountBulletsFrom(s, BulletMatchEnd(s, MinOf(starts)))

checkBulletCount_errorAtLimit(slide, config) ==
    LET bulletCount == CountBulletsFrom(slide.content, 1)
    IN  IF bulletCount > config.maxBulletsPerSlide
        THEN <<Issue("too-many-bullets",
                     IF 2 * bulletCount >= 3 * config.maxBulletsPerSlide
                     THEN "error" ELSE "warning",
                     slide,
                     <<"Slide has bullet points", bulletCount, config.maxBulletsPerSlide>>,
                     "Consolidate bullet points or split into multiple slides",
                     <<"bulletCount", bulletCount>>)>>
        ELSE <<>>

checkBulletCount(slide, config) ==
    LET bulletCount == CountBulletsFrom(slide.content, 1)
    IN  IF bulletCount > config.maxBulletsPerSlide
        THEN <<Issue("too-many-bullets",
                     IF 2 * bulletCount > 3 * config.maxBulletsPerSlide
                     THEN "error" ELSE "warning",
                     slide,
                     <<"Slide has bullet points", bulletCount, config.maxBulletsPerSlide>>,
                     "Consolidate bullet points or split into multiple slides",
                     <<"bulletCount", bulletCount>>)>>
        ELSE <<>>

(* extractImages(slide).length *)
RECURSIVE CountImagesFrom(_, _)
CountImagesFrom(s, i) ==
    LET starts == {k \in i..Len(s) : ImageEnd(s, k) # 0}
    IN  IF starts = {} THEN 0
        ELSE 1 + CountImagesFrom(s, ImageEnd(s, MinOf(starts)) + 1)

extractImagesCount(slide) == CountImagesFrom(slide.content, 1)

(* /<fence>mermaid/i.test(content) *)
hasMermaidDiagram(slide) == Includes(ToLower(slide.content), MermaidOpen)

(* Math.floor(maxChars * (0.6 / imageCount)).  The quotient is computed     *)
(* exactly here; in double arithmetic 0.6 / 3 rounds down, so the source    *)
(* yields one less than this for imageCount = 3 when maxChars = 600.  The   *)
(* decks of this model hold at most two images per slide, where both agree. *)
adjustedMaxChars(maxChars, imageCount) == (6 * maxChars) \div (10 * imageCount)

CrowdingText(content) ==
    Trim(StripFrontmatter(RemoveDelimited(RemoveImages(content), MermaidOpen)))

checkImageTextCrowding(slide, config) ==
    LET images == extractImagesCount(slide)
        hasDiagram == hasMermaidDiagram(slide)
        imageCount == images + (IF hasDiagram THEN 1 ELSE 0)
        charCount == Len(CrowdingText(slide.content))
    IN  IF images = 0 /\ ~hasDiagram THEN <<>>
        ELSE IF charCount > adjustedMaxChars(config.maxCharsPerSlide, imageCount)
        THEN <<Issue("image-text-crowded", "warning", slide,
                     <<"Slide with image(s)/diagram(s) has chars", imageCount, charCount,
                       adjustedMaxChars(config.maxCharsPerSlide, imageCount)>>,
                     "Reduce text content when including images or diagrams",
                     <<"charCount", charCount, "imageCount", imageCount>>)>>
        ELSE <<>>

(* the code-block pattern of extractCodeBlocks (fence, word characters, newline, *)
(* lazily anything, fence) at position i: [end, code], or end = 0 for no match   *)
CodeBlockAt(s, i) ==
    LET w == RunEnd(s, i + 3, IsWord)
        j == IF MatchAt(s, Fence, i) /\ w <= Len(s) /\ s[w] = "\n"
             THEN IndexOf(s, Fence, w + 1) ELSE 0
    IN  IF j = 0 THEN [end |-> 0, code |-> <<>>]
        ELSE [end |-> j + 3, code |-> Trim(SubSeq(s, w + 1, j - 1))]

(* extractCodeBlocks(slide): the trimmed code of every fenced block, in order *)
RECURSIVE CodeBlocksFrom(_, _)
CodeBlocksFrom(s, i) ==
    LET starts == {k \in i..Len(s) : CodeBlockAt(s, k).end # 0}
    IN  IF starts = {} THEN <<>>
        ELSE <<CodeBlockAt(s, MinOf(starts)).code>>
             \o CodeBlocksFrom(s, CodeBlockAt(s, MinOf(starts)).end)

extractCodeBlocks(slide) == CodeBlocksFrom(slide.content, 1)

RECURSIVE CodeIssues(_, _)
CodeIssues(slide, blocks) ==
    IF blocks = <<>> THEN <<>>
    ELSE LET lineCount == Len(SplitOn(Head(blocks), NL))
         IN  (IF lineCount > 20
              THEN <<Issue("too-long-text",
                           IF lineCount > 30 THEN "error" ELSE "warning", slide,
                           <<"Code block has lines", lineCount>>,
                           "Shorten code block, highlight key parts, or split across slides",
                           <<>>)>>
              ELSE <<>>)
             \o CodeIssues(slide, Tail(blocks))

checkCodeBlocks(slide) == CodeIssues(slide, extractCodeBlocks(slide))

(* the six checks, concatenated in the order of the source *)
checkSlideLayout(slide, config) ==
    LET mergedConfig == MergeConfig(config)
    IN  checkEmptySlide(slide)
        \o checkMissingTitle(slide)
        \o checkTextLength(slide, mergedConfig)
        \o checkBulletCount(slide, mergedConfig)
        \o checkImageTextCrowding(slide, mergedConfig)
        \o checkCodeBlocks(slide)

RECURSIVE checkDeckLayout(_, _)
checkDeckLayout(slides, config) ==
    IF slides = <<>> THEN <<>>
    ELSE checkSlideLayout(Head(slides), config) \o checkDeckLayout(Tail(slides), config)

Penalty_rewardsInfo(severity) ==
    CASE severity = "error" -> 25
      [] severity = "warning" -> 10
      [] severity = "info" -> 0 - 3
      [] OTHER -> 0

Penalty(severity) ==
    CASE severity = "error" -> 25
      [] severity = "warning" -> 10
      [] severity = "info" -> 3
      [] OTHER -> 0

RECURSIVE SumPenalties(_)
SumPenalties(issues) ==
    IF issues = <<>> THEN 0 ELSE Penalty(Head(issues).severity) + SumPenalties(Tail(issues))

calculateLayoutScore_unclamped(issues) == 100 - SumPenalties(issues)

calculateLayoutScore(issues) ==
    IF Len(issues) = 0 THEN 100
    ELSE LET score == 100 - SumPenalties(issues)
         IN  IF score > 0 THEN score ELSE 0

shouldSplitSlide(issues) ==
    \E i \in 1..Len(issues) :
        /\ issues[i].severity = "error"
        /\ issues[i].type \in {"too-long-text", "too-many-bullets"}

(***************************************************************************)
(* cleanMarkdownOutput (llm module): the cleanup every generated text      *)
(* passes through before it is used as slide content.                      *)
(***************************************************************************)
MarkdownWord == <<"m", "a", "r", "k", "d", "o", "w", "n">>
MdWord == <<"m", "d">>
SlidevWord == <<"s", "l", "i", "d", "e", "v">>

(* .replace(/^<fence>(?:w1|w2|..)\n/, '') for the alternatives in words *)
StripOpeningFence(s, words) ==
    LET hit == {k \in 1..Len(words) : StartsWith(s, Fence \o words[k] \o NL)}
    IN  IF hit = {} THEN s
        ELSE SubSeq(s, Len(Fence \o words[MinOf(hit)] \o NL) + 1, Len(s))

(* .replace(/\n<fence>$/, '') *)
StripClosingFence(s) ==
    IF EndsWith(s, NL \o Fence) THEN SubSeq(s, 1, Len(s) - 4) ELSE s

(* the generic-fence branch: slice(3, -3).trim(), then drop a first line that *)
(* holds neither a space nor a dash (a language identifier)                   *)
StripGenericFence(s) ==
    LET inner == Trim(SubSeq(s, 4, Len(s) - 3))
        firstNewline == IndexOf(inner, NL, 1)
        firstLine == SubSeq(inner, 1, firstNewline - 1)
    IN  IF firstNewline # 0
           /\ ~Includes(firstLine, <<" ">>) /\ ~Includes(firstLine, <<"-">>)
        THEN SubSeq(inner, firstNewline + 1, Len(inner))
        ELSE inner

(* "Remove any leading explanation text before frontmatter" *)
StripLeadingExplanation(s) ==
    LET frontmatterStart == IndexOf(s, Dashes, 1)
        beforeFrontmatter == Trim(SubSeq(s, 1, frontmatterStart - 1))
    IN  IF frontmatterStart > 1
           /\ ~Includes(beforeFrontmatter, NL) /\ Len(beforeFrontmatter) < 100
        THEN SubSeq(s, frontmatterStart, Len(s))
        ELSE s

cleanMarkdownOutput(text) ==
    LET cleaned == Trim(text)
        unfenced ==
            IF StartsWith(cleaned, Fence \o MarkdownWord) \/ StartsWith(cleaned, Fence \o MdWord)
            THEN StripClosingFence(StripOpeningFence(cleaned, <<MarkdownWord, MdWord>>))
            ELSE IF StartsWith(cleaned, Fence \o SlidevWord)
            THEN StripClosingFence(StripOpeningFence(cleaned, <<SlidevWord>>))
            ELSE IF StartsWith(cleaned, Fence) /\ EndsWith(cleaned, Fence)
            THEN StripGenericFence(cleaned)
            ELSE cleaned
    IN  Trim(StripLeadingExplanation(unfenced))

(***************************************************************************)
(* Deck operations (slidevParser module).  A Slide is a record             *)
(* [index, content, frontmatter, layout, notes] with 0-based index; a      *)
(* SlideDeck is [frontmatter, slides, raw].  slides[i + 1] is the slide at *)
(* JavaScript position i.                                                  *)
(***************************************************************************)
(* the value undefined where a content string is expected *)
Undefined == <<"UNDEFINED">>

Slide(index, content, layout) ==
    [index |-> index, content |-> content, frontmatter |-> None,
     layout |-> layout, notes |-> None]

(* deck.slides[index]: undefined (None) outside the array *)
getSlide_wrap(deck, index) ==
    IF Len(deck.slides) = 0 THEN None
    ELSE Some(deck.slides[(index % Len(deck.slides)) + 1])

getSlide(deck, index) ==
    IF index >= 0 /\ index < Len(deck.slides) THEN Some(deck.slides[index + 1]) ELSE None

(* updateSlide: throws on an index outside [0, length), else replaces the  *)
(* content of that slide; the other fields and slides are copied           *)
updateSlide_unchecked(deck, index, content) ==
    [ok |-> TRUE, error |-> <<>>,
     deck |-> IF index < 0 \/ index >= Len(deck.slides) THEN deck
              ELSE [deck EXCEPT !.slides[index + 1].content = content]]

updateSlide(deck, index, content) ==
    IF index < 0 \/ index >= Len(deck.slides)
    THEN [ok |-> FALSE, error |-> <<"Invalid slide index", index>>]
    ELSE [ok |-> TRUE, error |-> <<>>,
          deck |-> [deck EXCEPT !.slides[index + 1].content = content]]

Reindex_keeps(slides) == slides

Reindex(slides) == [i \in 1..Len(slides) |-> [slides[i] EXCEPT !.index = i - 1]]

(* Array.prototype.splice(index, 0, x): the start is clamped to [0, length], *)
(* a negative start counts from the end                                      *)
SpliceStart_append(len, index) == len

SpliceStart(len, index) ==
    IF index < 0 THEN (IF len + index < 0 THEN 0 ELSE len + index)
    ELSE IF index > len THEN len ELSE index

insertSlide(deck, index, slide) ==
    LET newSlide == [index |-> index,
                     content |-> IF slide.content = Undefined THEN <<>> ELSE slide.content,
                     frontmatter |-> slide.frontmatter, layout |-> slide.layout,
                     notes |-> slide.notes]
        at == SpliceStart(Len(deck.slides), index)
        newSlides == SubSeq(deck.slides, 1, at) \o <<newSlide>>
                     \o SubSeq(deck.slides, at + 1, Len(deck.slides))
    IN  [deck EXCEPT !.slides = Reindex(newSlides)]

removeSlide(deck, index) ==
    LET keep == {i \in 1..Len(deck.slides) : i - 1 # index}
        F[i \in 0..Len(deck.slides)] ==
            IF i = 0 THEN <<>>
            ELSE IF i \in keep THEN Append(F[i - 1], deck.slides[i]) ELSE F[i - 1]
    IN  [deck EXCEPT !.slides = Reindex(F[Len(deck.slides)])]

(***************************************************************************)
(* The orchestrator (SlidevAIOrchestrator).                                *)
(*   layoutConfig  this.layoutConfig, fixed by the constructor             *)
(*   state         this.state: [deck, layoutIssues, history]               *)
(*   run           the invocations in progress, one record per caller:     *)
(*                 the position (pc), the arguments, the locals of the     *)
(*                 method, the collaborator calls issued so far (calls),   *)
(*                 what the collaborator answered (responses), the value   *)
(*                 returned (result) and the way the loop ended (terminal) *)
(*   tables        cleanMarkdownOutput and checkSlideLayout are pure; the  *)
(*                 values they take on the texts and slides of this model  *)
(*                 are computed once, in Init, and looked up afterwards    *)
(*                 (TLC would otherwise recompute them at every step).     *)
(*   pure          the module-level pure functions (calculateLayoutScore,  *)
(*                 the deck operations, the parser) exercised on their     *)
(*                 own: the arguments of the latest call and the value it  *)
(*                 returned.  None while the orchestrator is what runs.    *)
(***************************************************************************)
VARIABLES layoutConfig, state, run, tables, pure

vars == <<layoutConfig, state, run, tables, pure>>

Cleaned(text) == tables.clean[text]

Checked(slide) == tables.check[slide]

RECURSIVE CheckedDeck(_)
CheckedDeck(slides) ==
    IF slides = <<>> THEN <<>> ELSE Checked(Head(slides)) \o CheckedDeck(Tail(slides))

DEFAULT_MAX_FIX_ITERATIONS == 3

(* constructor: { maxCharsPerSlide: 600, maxBulletsPerSlide: 6, ...layoutConfig } *)
ConstructLayoutConfig(partial) == MergeConfig(partial)

(* this.state = { layoutIssues: [], history: [] }; deck and currentOperation unset *)
InitialState == [deck |-> None, layoutIssues |-> <<>>, history |-> <<>>, currentOperation |-> None]

Callers == {"a", "b"}

EmptyDeck == [frontmatter |-> <<>>, slides |-> <<>>, raw |-> <<>>]

IdleRun ==
    [pc |-> "idle", op |-> "none", deck |-> EmptyDeck, slideIndex |-> 0,
     autoFix |-> FALSE, maxIterations |-> 0, currentSlide |-> None,
     currentContent |-> <<>>, iterations |-> 0, layoutIssues |-> <<>>,
     calls |-> <<>>, responses |-> <<>>, result |-> None, terminal |-> "none"]

(* error instanceof Error ? error.message : 'Unknown error' *)
ErrorMessage(thrown) == IF thrown.isError THEN thrown.message ELSE "Unknown error"

EditSlideResult(success, content, layoutIssues, iterations, error) ==
    [success |-> success, content |-> content, layoutIssues |-> layoutIssues,
     iterations |-> iterations, error |-> error]

Call_withoutIssues(fn, content, issues) == [fn |-> fn, content |-> content, issues |-> <<>>]
Call(fn, content, issues) == [fn |-> fn, content |-> content, issues |-> issues]

(* let layoutIssues: LayoutIssue[] = [] *)
InitialLayoutIssues_stale == state.layoutIssues
InitialLayoutIssues == <<>>

(* iterations++ *)
NextIterations_stuck(n) == n
NextIterations_perCheck(n) == n + 2
NextIterations(n) == n + 1

(* while (autoFix && layoutIssues.length > 0 && iterations < maxIterations) *)
LoopGuard_offByOne(autoFix, layoutIssues, iterations, maxIterations) ==
    autoFix /\ Len(layoutIssues) > 0 /\ iterations <= maxIterations
LoopGuard_ignoresAutoFix(autoFix, layoutIssues, iterations, maxIterations) ==
    Len(layoutIssues) > 0 /\ iterations < maxIterations
LoopGuard_ignoresIssues(autoFix, layoutIssues, iterations, maxIterations) ==
    autoFix /\ iterations < maxIterations
LoopGuard(autoFix, layoutIssues, iterations, maxIterations) ==
    autoFix /\ Len(layoutIssues) > 0 /\ iterations < maxIterations

(* if (score >= 80) break *)
ScoreAcceptable_strict(score) == score >= 95
ScoreAcceptable_lenient(score) == score >= 50
ScoreAcceptable(score) == score >= 80

(* return { success: true, content: currentContent, layoutIssues, iterations } *)
ReturnSuccess(rn, terminal) ==
    [rn EXCEPT !.pc = "done", !.terminal = terminal,
               !.result = Some(EditSlideResult(TRUE, rn.currentContent, rn.layoutIssues,
                                               rn.iterations, None))]

(* catch (error): return { success: false, content: currentContent, ... } *)
FailureResult_dropsProgress(rn, thrown) ==
    EditSlideResult(FALSE, <<>>, <<>>, 0, Some(ErrorMessage(thrown)))
FailureResult(rn, thrown) ==
    EditSlideResult(FALSE, rn.currentContent, rn.layoutIssues, rn.iterations,
                    Some(ErrorMessage(thrown)))

(* editSlideWithFeedback up to its first await: the options' defaults, the *)
(* slide lookup and the call of editSlide with an empty issue list          *)
editStart(deck, slideIndex, options) ==
    LET maxIterations == IF options.maxIterations = None
                         THEN DEFAULT_MAX_FIX_ITERATIONS ELSE options.maxIterations[1]
        autoFix == IF options.autoFix = None THEN TRUE ELSE options.autoFix[1]
        currentSlide == getSlide(deck, slideIndex)
        entered == [IdleRun EXCEPT !.op = "editSlideWithFeedback", !.deck = deck,
                                   !.slideIndex = slideIndex, !.autoFix = autoFix,
                                   !.maxIterations = maxIterations]
    IN  IF currentSlide = None
        THEN [entered EXCEPT
                !.pc = "done", !.terminal = "Rejected",
                !.result = Some(EditSlideResult(FALSE, <<>>, <<>>, 0,
                                                Some(<<"Slide not found", slideIndex>>)))]
        ELSE [entered EXCEPT
                !.pc = "awaitEdit",
                !.currentSlide = currentSlide,
                !.currentContent = currentSlide[1].content,
                !.iterations = 0,
                !.layoutIssues = InitialLayoutIssues,
                !.calls = <<Call("editSlide", currentSlide[1].content, <<>>)>>]

(* the head of the while loop and what follows it: either the next call of  *)
(* fixLayoutIssues with the current content and issues, or the return.  The *)
(* loop ends Converged when it never had to run (autoFix off, no issue) or  *)
(* by the break, Exhausted when the iteration budget stops it.              *)
loopOrReturn(rn) ==
    IF LoopGuard(rn.autoFix, rn.layoutIssues, rn.iterations, rn.maxIterations)
    THEN [rn EXCEPT !.pc = "awaitFix",
                    !.calls = Append(@, Call("fixLayoutIssues", rn.currentContent,
                                             rn.layoutIssues))]
    ELSE ReturnSuccess(rn, IF ~rn.autoFix \/ Len(rn.layoutIssues) = 0
                           THEN "Converged" ELSE "Exhausted")

(* editSlide resolved with text: iterations++, the check on the transient slide *)
editResolved(rn, text) ==
    LET content == Cleaned(text)
        tempSlide == [rn.currentSlide[1] EXCEPT !.content = content]
    IN  loopOrReturn([rn EXCEPT !.currentContent = content,
                                !.iterations = NextIterations(@),
                                !.layoutIssues = Checked(tempSlide),
                                !.responses = Append(@, Some(text))])

(* fixLayoutIssues resolved with text: iterations++, re-check, score, break *)
fixResolved_checksGiven(rn, text) ==
    LET content == Cleaned(text)
        checked == [rn EXCEPT !.currentContent = content,
                              !.iterations = NextIterations(@),
                              !.layoutIssues = Checked(rn.currentSlide[1]),
                              !.responses = Append(@, Some(text))]
        score == calculateLayoutScore(checked.layoutIssues)
    IN  IF ScoreAcceptable(score) THEN ReturnSuccess(checked, "Converged")
        ELSE loopOrReturn(checked)
fixResolved(rn, text) ==
    LET content == Cleaned(text)
        updatedSlide == [rn.currentSlide[1] EXCEPT !.content = content]
        checked == [rn EXCEPT !.currentContent = content,
                              !.iterations = NextIterations(@),
                              !.layoutIssues = Checked(updatedSlide),
                              !.responses = Append(@, Some(text))]
        score == calculateLayoutScore(checked.layoutIssues)
    IN  IF ScoreAcceptable(score) THEN ReturnSuccess(checked, "Converged")
        ELSE loopOrReturn(checked)

(* the awaited call rejected: the catch block *)
editRejected_retries(rn, thrown) ==
    loopOrReturn([rn EXCEPT !.responses = Append(@, <<"throw", thrown>>)])
editRejected(rn, thrown) ==
    [rn EXCEPT !.pc = "done", !.terminal = "Failed",
               !.responses = Append(@, <<"throw", thrown>>),
               !.result = Some(FailureResult(rn, thrown))]

(***************************************************************************)
(* The single-call operations: addDiagramToSlide, addImageToSlide,         *)
(* fixSlideLayout, splitCrowdedSlide.  Each returns a ToolCallResult       *)
(* [tool, success, data, error]; the duration field (wall-clock time) is   *)
(* not modelled.                                                           *)
(***************************************************************************)
ToolCallResult(tool, success, data, error) ==
    [tool |-> tool, success |-> success, data |-> data, error |-> error]

ToolFailure(rn, tool, error) ==
    [rn EXCEPT !.pc = "done", !.terminal = "Failed",
               !.result = Some(ToolCallResult(tool, FALSE, None, Some(error)))]

ToolSuccess(rn, tool, deck) ==
    [rn EXCEPT !.pc = "done", !.terminal = "Done",
               !.result = Some(ToolCallResult(tool, TRUE, Some(deck), None))]

(* the outcome of updateSlide inside the try block: a throw goes to catch *)
ToolUpdated(rn, tool, content) ==
    LET updated == updateSlide(rn.deck, rn.slideIndex, content)
    IN  IF updated.ok THEN ToolSuccess(rn, tool, updated.deck)
        ELSE ToolFailure(rn, tool, updated.error)

(* the common entry: getSlide, and the "Slide n not found" failure *)
ToolEntered(op, deck, slideIndex) ==
    [IdleRun EXCEPT !.op = op, !.deck = deck, !.slideIndex = slideIndex,
                    !.currentSlide = getSlide(deck, slideIndex)]

NotFound(rn, tool) ==
    [ToolFailure(rn, tool, <<"Slide not found", rn.slideIndex>>) EXCEPT !.terminal = "Rejected"]

(* formatMermaidMarkdown / formatImageMarkdown *)
formatMermaidMarkdown(mermaidCode) == MermaidOpen \o NL \o Trim(mermaidCode) \o NL \o Fence
formatImageMarkdown(src, alt) == <<"!", "[">> \o alt \o <<"]", "(">> \o src \o <<")">>

(* insertDiagramIntoSlide / insertImageIntoSlide with the default position 'end' *)
insertAtEnd(slideContent, generated) ==
    IF ~generated.success \/ generated.markdown = <<>> THEN slideContent
    ELSE slideContent \o NL \o NL \o generated.markdown

generatedStart(op, tool, fn, deck, slideIndex) ==
    LET rn == ToolEntered(op, deck, slideIndex)
    IN  IF rn.currentSlide = None THEN NotFound(rn, tool)
        ELSE [rn EXCEPT !.pc = "awaitGenerated", !.calls = <<Call(fn, <<>>, <<>>)>>]

(* generateDiagram / generateImage settled with a DiagramResult / ImageResult *)
generatedSettled(rn, tool, generated) ==
    LET settled == [rn EXCEPT !.responses = Append(@, generated)]
    IN  IF ~generated.success THEN ToolFailure(settled, tool, generated.error)
        ELSE ToolUpdated(settled, tool, insertAtEnd(rn.currentSlide[1].content, generated))

fixSlideLayoutStart(deck, slideIndex) ==
    LET rn == ToolEntered("fixSlideLayout", deck, slideIndex)
        issues == Checked(rn.currentSlide[1])
    IN  IF rn.currentSlide = None THEN NotFound(rn, "fix_layout")
        ELSE IF Len(issues) = 0 THEN ToolSuccess(rn, "fix_layout", deck)
        ELSE [rn EXCEPT !.pc = "awaitLayoutFix", !.layoutIssues = issues,
                        !.calls = <<Call("fixLayoutIssues", rn.currentSlide[1].content, issues)>>]

fixSlideLayoutResolved(rn, text) ==
    ToolUpdated([rn EXCEPT !.responses = Append(@, Some(text))], "fix_layout",
                Cleaned(text))

(* splitSlide: cleaned.split(/\n---\n/).map(s => s.trim()).filter(Boolean) *)
SlideSeparator == NL \o Dashes \o NL
splitSlideBodies(text) ==
    LET parts == SplitOn(Cleaned(text), SlideSeparator)
        trimmed == [i \in 1..Len(parts) |-> Trim(parts[i])]
    IN  SelectSeq(trimmed, LAMBDA b : b # <<>>)

splitCrowdedSlideStart(deck, slideIndex) ==
    LET rn == ToolEntered("splitCrowdedSlide", deck, slideIndex)
        issues == Checked(rn.currentSlide[1])
    IN  IF rn.currentSlide = None THEN NotFound(rn, "fix_layout")
        ELSE [rn EXCEPT !.pc = "awaitSplit", !.layoutIssues = issues,
                        !.calls = <<Call("splitSlide", rn.currentSlide[1].content, issues)>>]

(* for (let i = 1; i < newSlideContents.length; i++) newDeck = insertSlide(...) *)
RECURSIVE InsertBodies(_, _, _, _)
InsertBodies(deck, slideIndex, bodies, i) ==
    IF i >= Len(bodies) THEN deck
    ELSE InsertBodies(insertSlide(deck, slideIndex + i,
                                  [content |-> bodies[i + 1], frontmatter |-> None,
                                   layout |-> None, notes |-> None]),
                      slideIndex, bodies, i + 1)

(* "Build new deck with split slides": updateSlide with the first body,     *)
(* then one insertSlide per further body                                   *)
SplitDeck_keepsOriginal(deck, slideIndex, newSlideContents) ==
    [ok |-> TRUE, error |-> <<>>, deck |-> InsertBodies(deck, slideIndex, newSlideContents, 0)]
SplitDeck(deck, slideIndex, newSlideContents) ==
    LET first == updateSlide(deck, slideIndex,
                             IF Len(newSlideContents) = 0 THEN Undefined
                             ELSE newSlideContents[1])
    IN  IF ~first.ok THEN first
        ELSE [first EXCEPT !.deck = InsertBodies(first.deck, slideIndex, newSlideContents, 1)]

splitCrowdedSlideResolved(rn, text) ==
    LET settled == [rn EXCEPT !.responses = Append(@, Some(text))]
        split == SplitDeck(rn.deck, rn.slideIndex, splitSlideBodies(text))
    IN  IF ~split.ok THEN ToolFailure(settled, "fix_layout", split.error)
        ELSE ToolSuccess(settled, "fix_layout", split.deck)

toolRejected(rn, thrown) ==
    ToolFailure([rn EXCEPT !.responses = Append(@, <<"throw", thrown>>)],
                "fix_layout", ErrorMessage(thrown))

(***************************************************************************)
(* Inputs: the decks, slide indexes, options and collaborator answers the  *)
(* operations are exercised with.                                          *)
(***************************************************************************)
MaxSlideIndex == 2
MaxIterationsInput == 3

Repeat(s, n) == [i \in 1..(n * Len(s)) |-> s[((i - 1) % Len(s)) + 1]]

TextGood == <<"#", " ", "P", "l", "a", "n", "\n", "t", "e", "n", " ", "c", "h", "a", "r", "s", " ", "o", "k">>
TextShort == <<"a", "b", "c", "d", "e", "f", "g", "h">>
TextTitle8 == <<"#", " ", "T", "i", "t", "l", "e", "1">>
TextNumbered8 == <<"1", ".", "2", ".", "3", ".", "4", ".">>
TextFencedGood == Fence \o MarkdownWord \o NL \o TextGood \o NL \o Fence
TextBullets10 == Repeat(<<"-", " ", "a", "\n">>, 10)
TextBullets7 == <<"#", " ", "L", "\n">> \o Repeat(<<"-", " ", "i", "t", "e", "m", "\n">>, 7)
TextTwoSlides == TextGood \o SlideSeparator \o <<"#", " ", "N", "e", "x", "t", "\n", "m", "o", "r", "e", " ", "t", "e", "x", "t", " ", "h", "e", "r", "e">>
TextThreeSlides == TextGood \o SlideSeparator \o TextTitle8 \o SlideSeparator \o TextShort

Deck2 ==
    [frontmatter |-> <<>>,
     slides |-> <<Slide(0, TextGood, None), Slide(1, TextBullets10, Some("cover"))>>,
     raw |-> TextGood \o SlideSeparator \o TextBullets10]

Decks == {EmptyDeck, Deck2}
SlideIndexes == (0 - 1)..MaxSlideIndex

(* EnhanceOptions: autoFix and maxIterations, each possibly left out *)
EditOptions ==
    {[autoFix |-> Some(a), maxIterations |-> Some(m)] :
        a \in BOOLEAN, m \in 0..MaxIterationsInput}
    \cup {[autoFix |-> None, maxIterations |-> None]}

(* the partial layout configs an orchestrator is constructed with *)
LayoutConfigInputs == << <<>>, [maxBulletsPerSlide |-> 2] >>

(* texts generateText answers with, and values a failing call throws *)
Responses == {TextShort, TextTitle8, TextNumbered8, TextFencedGood, TextBullets10, TextBullets7}
SplitResponses == {TextTwoSlides, TextThreeSlides, TextFencedGood, <<>>}
Throwables == {[isError |-> TRUE, message |-> "timeout"], [isError |-> FALSE, message |-> ""]}

(* what generateDiagram / generateImage settle with (they never reject) *)
DiagramResults ==
    {[success |-> TRUE, markdown |-> formatMermaidMarkdown(<<"g", "r", "a", "p", "h", " ", "T", "D">>), error |-> ""],
     [success |-> FALSE, markdown |-> <<>>, error |-> "Empty Mermaid code"]}
ImageResults ==
    {[success |-> TRUE, markdown |-> formatImageMarkdown(<<"u", ".", "p", "n", "g">>, <<"p", "i", "c">>), error |-> ""],
     [success |-> FALSE, markdown |-> <<>>, error |-> "No image URL in response"]}

(***************************************************************************)
(* Actions.  r is the caller whose invocation takes the step.              *)
(***************************************************************************)
(* the locals of an invocation (currentContent) kept on the instance *)
Step_sharedContent(r, rn) ==
    /\ run' = [o \in Callers |->
                 IF o = r THEN rn ELSE [run[o] EXCEPT !.currentContent = rn.currentContent]]
    /\ UNCHANGED <<layoutConfig, state, tables, pure>>
(* the issues an operation found stored on the instance *)
Step_storesIssues(r, rn) ==
    /\ run' = [run EXCEPT ![r] = rn]
    /\ state' = [state EXCEPT !.layoutIssues = rn.layoutIssues]
    /\ UNCHANGED <<layoutConfig, tables, pure>>
Step(r, rn) == run' = [run EXCEPT ![r] = rn] /\ UNCHANGED <<layoutConfig, state, tables, pure>>

InvokeEditSlideWithFeedback(r, decks, indexes, options) ==
    /\ run[r].pc = "idle"
    /\ \E deck \in decks, slideIndex \in indexes, opts \in options :
          Step(r, editStart(deck, slideIndex, opts))

EditSlideResolves(r, texts) ==
    /\ run[r].pc = "awaitEdit"
    /\ \E text \in texts : Step(r, editResolved(run[r], text))

FixLayoutIssuesResolves(r, texts) ==
    /\ run[r].pc = "awaitFix"
    /\ \E text \in texts : Step(r, fixResolved(run[r], text))

CollaboratorRejects(r, throwables) ==
    /\ run[r].pc \in {"awaitEdit", "awaitFix"}
    /\ \E thrown \in throwables : Step(r, editRejected(run[r], thrown))

InvokeAddDiagramToSlide(r) ==
    /\ run[r].pc = "idle"
    /\ \E deck \in Decks, slideIndex \in SlideIndexes :
          Step(r, generatedStart("addDiagramToSlide", "generate_diagram",
                                 "generateDiagram", deck, slideIndex))

InvokeAddImageToSlide(r) ==
    /\ run[r].pc = "idle"
    /\ \E deck \in Decks, slideIndex \in SlideIndexes :
          Step(r, generatedStart("addImageToSlide", "generate_image",
                                 "generateImage", deck, slideIndex))

GenerateDiagramSettles(r) ==
    /\ run[r].pc = "awaitGenerated" /\ run[r].op = "addDiagramToSlide"
    /\ \E generated \in DiagramResults :
          Step(r, generatedSettled(run[r], "generate_diagram", generated))

GenerateImageSettles(r) ==
    /\ run[r].pc = "awaitGenerated" /\ run[r].op = "addImageToSlide"
    /\ \E generated \in ImageResults :
          Step(r, generatedSettled(run[r], "generate_image", generated))

InvokeFixSlideLayout(r) ==
    /\ run[r].pc = "idle"
    /\ \E deck \in Decks, slideIndex \in SlideIndexes :
          Step(r, fixSlideLayoutStart(deck, slideIndex))

FixSlideLayoutResolves(r) ==
    /\ run[r].pc = "awaitLayoutFix"
    /\ \E text \in Responses : Step(r, fixSlideLayoutResolved(run[r], text))

InvokeSplitCrowdedSlide(r) ==
    /\ run[r].pc = "idle"
    /\ \E deck \in Decks, slideIndex \in SlideIndexes :
          Step(r, splitCrowdedSlideStart(deck, slideIndex))

SplitSlideResolves(r) ==
    /\ run[r].pc = "awaitSplit"
    /\ \E text \in SplitResponses : Step(r, splitCrowdedSlideResolved(run[r], text))

ToolCallRejects(r) ==
    /\ run[r].pc \in {"awaitLayoutFix", "awaitSplit"}
    /\ \E thrown \in Throwables : Step(r, toolRejected(run[r], thrown))

(* the caller has received the result; it may invoke again *)
Returned(r) ==
    /\ run[r].pc = "done"
    /\ Step(r, IdleRun)

(* checkDeckLayout(deck): the synchronous method that stores the issues *)
CheckDeckLayout ==
    /\ \E deck \in Decks :
          state' = [state EXCEPT !.layoutIssues = CheckedDeck(deck.slides)]
    /\ UNCHANGED <<layoutConfig, run, tables, pure>>

ClearState ==
    /\ state' = InitialState
    /\ UNCHANGED <<layoutConfig, run, tables, pure>>

(* the slides of the decks, and the transient slides { ...slide, content } *)
DeckSlides == UNION {{d.slides[i] : i \in 1..Len(d.slides)} : d \in Decks}
Tabulate(config) ==
    LET clean == [t \in Responses \cup SplitResponses |-> cleanMarkdownOutput(t)]
        slides == DeckSlides \cup {[sl EXCEPT !.content = clean[t]] :
                                      sl \in DeckSlides, t \in Responses}
    IN  [clean |-> clean, check |-> [sl \in slides |-> checkSlideLayout(sl, config)]]

Init ==
    /\ \E k \in 1..Len(LayoutConfigInputs) :
          layoutConfig = ConstructLayoutConfig(LayoutConfigInputs[k])
    /\ tables = Tabulate(layoutConfig)
    /\ state = InitialState
    /\ run = [r \in Callers |-> IdleRun]
    /\ pure = None

CallerNext(r) ==
    \/ InvokeEditSlideWithFeedback(r, Decks, SlideIndexes, EditOptions)
    \/ EditSlideResolves(r, Responses)
    \/ FixLayoutIssuesResolves(r, Responses)
    \/ CollaboratorRejects(r, Throwables)
    \/ InvokeAddDiagramToSlide(r)
    \/ GenerateDiagramSettles(r)
    \/ InvokeAddImageToSlide(r)
    \/ GenerateImageSettles(r)
    \/ InvokeFixSlideLayout(r)
    \/ FixSlideLayoutResolves(r)
    \/ InvokeSplitCrowdedSlide(r)
    \/ SplitSlideResolves(r)
    \/ ToolCallRejects(r)
    \/ Returned(r)

(* one caller at a time *)
Next == CallerNext("a") \/ CheckDeckLayout \/ ClearState

Spec == Init /\ [][Next]_vars

(***************************************************************************)
(* Two callers of editSlideWithFeedback on the same orchestrator: run "a"  *)
(* and run "b" interleave with each other and with the methods that write  *)
(* this.state.  Used to compare two runs.                                  *)
(***************************************************************************)
MaxPairIterations == 2

PairDecks == {Deck2}
PairIndexes == {0, 1}
PairOptions ==
    {[autoFix |-> Some(a), maxIterations |-> Some(m)] :
        a \in BOOLEAN, m \in 0..MaxPairIterations}
    \cup {[autoFix |-> None, maxIterations |-> None]}
PairResponses == {TextBullets10, TextShort, TextFencedGood}
PairThrowables == {[isError |-> TRUE, message |-> "timeout"]}

PairCallerNext(r) ==
    \/ InvokeEditSlideWithFeedback(r, PairDecks, PairIndexes, PairOptions)
    \/ EditSlideResolves(r, PairResponses)
    \/ FixLayoutIssuesResolves(r, PairResponses)
    \/ CollaboratorRejects(r, PairThrowables)
    \/ Returned(r)

PairNext == PairCallerNext("a") \/ PairCallerNext("b") \/ CheckDeckLayout \/ ClearState

PairSpec == Init /\ [][PairNext]_vars

(***************************************************************************)
(* Every awaited collaborator call settles: the promise resolves or        *)
(* rejects.                                                                *)
(***************************************************************************)
CollaboratorSettles(r) ==
    \/ EditSlideResolves(r, Responses)
    \/ FixLayoutIssuesResolves(r, Responses)
    \/ CollaboratorRejects(r, Throwables)

FairSpec == Spec /\ WF_vars(CollaboratorSettles("a"))

(***************************************************************************)
(* Vocabulary of the properties below.                                     *)
(***************************************************************************)
IsEdit(r) == run[r].op = "editSlideWithFeedback"
ValidIndex(r) == run[r].slideIndex >= 0 /\ run[r].slideIndex < Len(run[r].deck.slides)
Finished(r) == run[r].pc = "done"
Succeeded(r) == Finished(r) /\ run[r].result[1].success
Budget(r) == IF run[r].maxIterations < 1 THEN 1 ELSE run[r].maxIterations
IsText(response) == Len(response) = 1
(* the issues the detector reports on the target slide with the cleaned text *)
IssuesOn(r, text) ==
    Checked([run[r].deck.slides[run[r].slideIndex + 1] EXCEPT !.content = Cleaned(text)])
LastResponse(r) == run[r].responses[Len(run[r].responses)]
FinalScore(r) == calculateLayoutScore(run[r].result[1].layoutIssues)

(* C1 as stated: a single editSlideWithFeedback invocation issues at most  *)
(* maxIterations collaborator calls, for every maxIterations including 0.  *)
C1_CallsWithinMaxIterations ==
    \A r \in Callers : IsEdit(r) => Len(run[r].calls) <= run[r].maxIterations

(* C1 amended: the initial edit call is issued whatever maxIterations is,  *)
(* so an invocation issues at most max(1, maxIterations) collaborator      *)
(* calls, each an editSlide or a fixLayoutIssues call.                     *)
C1_CallsWithinBudget ==
    \A r \in Callers :
        IsEdit(r) =>
            /\ Len(run[r].calls) <= Budget(r)
            /\ \A i \in 1..Len(run[r].calls) :
                  run[r].calls[i].fn = IF i = 1 THEN "editSlide" ELSE "fixLayoutIssues"

(* C1 witness: a run that spent its whole budget of 3 calls *)
C1_BudgetSpent ==
    \E r \in Callers :
        /\ IsEdit(r) /\ Finished(r) /\ run[r].autoFix
        /\ run[r].maxIterations = 3 /\ Len(run[r].calls) = 3

(* C2: with autoFix = false on a valid slide index exactly one collaborator *)
(* call, the initial edit, is made, whatever the detector reports and       *)
(* whatever maxIterations is.                                               *)
C2_AutoFixOffSingleCall ==
    \A r \in Callers :
        IsEdit(r) /\ ValidIndex(r) /\ ~run[r].autoFix =>
            /\ Len(run[r].calls) = 1
            /\ run[r].calls[1].fn = "editSlide"
            /\ Succeeded(r) => run[r].result[1].iterations = 1

(* C2 witness: autoFix off, budget 3, issues reported, one call made *)
C2_IssuesLeftUnfixed ==
    \E r \in Callers :
        /\ IsEdit(r) /\ Succeeded(r) /\ ~run[r].autoFix /\ run[r].maxIterations = 3
        /\ Len(run[r].result[1].layoutIssues) > 0
        /\ Len(run[r].calls) = 1

EightCharBodies == {t \in Responses : Len(t) = 8}
OnlyEightCharBodies(r) ==
    /\ IsEdit(r) /\ Finished(r) /\ ValidIndex(r)
    /\ run[r].autoFix /\ run[r].maxIterations = 3
    /\ \A i \in 1..Len(run[r].responses) :
          IsText(run[r].responses[i]) /\ run[r].responses[i][1] \in EightCharBodies

(* C3 as stated: autoFix on, maxIterations = 3, every response an          *)
(* 8-character body: the run ends Exhausted with exactly 3 calls and       *)
(* iterations = 3.                                                         *)
C3_EightCharBodiesExhaust ==
    \A r \in Callers :
        OnlyEightCharBodies(r) =>
            /\ run[r].terminal = "Exhausted"
            /\ Len(run[r].calls) = 3
            /\ run[r].result[1].iterations = 3

(* C3 amended: under the default layout thresholds an 8-character body     *)
(* draws an empty-slide warning and at most a missing-title info, a score  *)
(* of 87 or more; the first check after a fix call therefore accepts: the  *)
(* run ends Converged with exactly 2 calls and iterations = 2.             *)
C3_EightCharBodiesConverge ==
    \A r \in Callers :
        OnlyEightCharBodies(r) /\ layoutConfig = DEFAULT_CONFIG =>
            /\ run[r].terminal = "Converged"
            /\ Len(run[r].calls) = 2
            /\ run[r].result[1].iterations = 2
            /\ run[r].result[1].success
            /\ Len(run[r].result[1].layoutIssues) > 0
            /\ FinalScore(r) >= 87

(* C3 witness: such a run on the slide without a layout, default thresholds *)
C3_EightCharRun ==
    \E r \in Callers :
        /\ OnlyEightCharBodies(r) /\ layoutConfig = DEFAULT_CONFIG
        /\ run[r].slideIndex = 0 /\ Len(run[r].responses) = 2

(* C4: when the content of the initial edit yields an empty issue list the *)
(* invocation returns success (Converged) with iterations = 1, an empty    *)
(* layoutIssues and no fix call, for any autoFix and maxIterations.        *)
C4_CleanFirstEditConverges ==
    \A r \in Callers :
        (/\ IsEdit(r) /\ Len(run[r].responses) >= 1
         /\ IsText(run[r].responses[1])
         /\ IssuesOn(r, run[r].responses[1][1]) = <<>>) =>
            /\ Finished(r)
            /\ run[r].terminal = "Converged"
            /\ run[r].result[1] = EditSlideResult(TRUE, Cleaned(run[r].responses[1][1]),
                                                  <<>>, 1, None)
            /\ Len(run[r].calls) = 1

(* C4 witness: autoFix on, budget 3, the first edit is free of issues *)
C4_CleanFirstEdit ==
    \E r \in Callers :
        /\ IsEdit(r) /\ Len(run[r].responses) >= 1 /\ IsText(run[r].responses[1])
        /\ IssuesOn(r, run[r].responses[1][1]) = <<>>
        /\ run[r].autoFix /\ run[r].maxIterations = 3

C6_TerminalStateReported ==
    \A r1, r2 \in Callers :
        (/\ IsEdit(r1) /\ Finished(r1) /\ run[r1].terminal = "Converged"
         /\ IsEdit(r2) /\ Finished(r2) /\ run[r2].terminal = "Exhausted") =>
            run[r1].result # run[r2].result

(* C7 as stated, its conclusion: every successful return with autoFix on  *)
(* has an empty issue list, or a final score >= 80, or iterations equal   *)
(* to maxIterations.                                                      *)
C7_StopsAtMaxIterations ==
    \A r \in Callers :
        IsEdit(r) /\ Succeeded(r) /\ run[r].autoFix =>
            \/ run[r].result[1].layoutIssues = <<>>
            \/ FinalScore(r) >= 80
            \/ run[r].result[1].iterations = run[r].maxIterations

(* C7 amended: after every fix call the issues are recomputed on the new   *)
(* content; a further fix call is issued only while the score is below 80  *)
(* and iterations is below maxIterations; a run that made a fix call ends  *)
(* Converged exactly when the final score is >= 80 and Exhausted exactly   *)
(* when it is below 80 with iterations = maxIterations.  Every successful  *)
(* return with autoFix on has an empty issue list, or a final score >= 80, *)
(* or iterations = max(1, maxIterations): the initial edit counts as       *)
(* iteration 1 even when maxIterations is 0.                               *)
C7_StopsAtScoreOrBudget ==
    \A r \in Callers :
        IsEdit(r) =>
            /\ run[r].pc = "awaitFix" =>
                  /\ run[r].autoFix /\ Len(run[r].layoutIssues) > 0
                  /\ run[r].iterations < run[r].maxIterations
                  /\ Len(run[r].responses) >= 2 =>
                        calculateLayoutScore(run[r].layoutIssues) < 80
            /\ Succeeded(r) /\ Len(run[r].responses) >= 2 =>
                  /\ run[r].result[1].content = Cleaned(LastResponse(r)[1])
                  /\ run[r].result[1].layoutIssues = IssuesOn(r, LastResponse(r)[1])
                  /\ run[r].terminal = "Converged" <=> FinalScore(r) >= 80
                  /\ run[r].terminal = "Exhausted" <=>
                        (FinalScore(r) < 80 /\ run[r].result[1].iterations = run[r].maxIterations)
            /\ Succeeded(r) /\ run[r].autoFix =>
                  \/ run[r].result[1].layoutIssues = <<>>
                  \/ FinalScore(r) >= 80
                  \/ run[r].result[1].iterations = Budget(r)

(* C7 witness: the third call of a budget of 3 still scores below 80 *)
C7_ExhaustedBelowThreshold ==
    \E r \in Callers :
        /\ IsEdit(r) /\ Succeeded(r) /\ run[r].terminal = "Exhausted"
        /\ run[r].maxIterations = 3 /\ Len(run[r].responses) = 3
        /\ FinalScore(r) < 80

(* C8: an invalid slide index passed to editSlideWithFeedback,             *)
(* addDiagramToSlide, addImageToSlide, fixSlideLayout or splitCrowdedSlide *)
(* is rejected before any collaborator call: a failure with an error,      *)
(* zero calls and, for editSlideWithFeedback, iterations = 0.              *)
C8_InvalidIndexRejected ==
    \A r \in Callers :
        run[r].op # "none" /\ ~ValidIndex(r) =>
            /\ Finished(r)
            /\ run[r].calls = <<>> /\ run[r].responses = <<>>
            /\ run[r].result[1].success = FALSE
            /\ run[r].result[1].error = Some(<<"Slide not found", run[r].slideIndex>>)
            /\ IsEdit(r) => run[r].result[1].iterations = 0

(* C8 witness: splitCrowdedSlide at the index one past the last slide *)
C8_IndexPastTheEnd ==
    \E r \in Callers :
        /\ run[r].op = "splitCrowdedSlide" /\ Finished(r)
        /\ Len(run[r].deck.slides) > 0
        /\ run[r].slideIndex = Len(run[r].deck.slides)

SameInputs(r1, r2) ==
    /\ IsEdit(r1) /\ IsEdit(r2)
    /\ run[r1].deck = run[r2].deck /\ run[r1].slideIndex = run[r2].slideIndex
    /\ run[r1].autoFix = run[r2].autoFix /\ run[r1].maxIterations = run[r2].maxIterations

(* C9: two editSlideWithFeedback runs on the same deck, slide index,       *)
(* options and layout config that have received the same sequence of       *)
(* collaborator responses have made the same calls and hold the same       *)
(* content, layoutIssues, iterations, terminal state and result, whatever  *)
(* happened to the orchestrator's state in between.                        *)
C9_Determinism ==
    \A r1, r2 \in Callers :
        SameInputs(r1, r2) /\ run[r1].responses = run[r2].responses =>
            /\ run[r1].calls = run[r2].calls
            /\ run[r1].currentContent = run[r2].currentContent
            /\ run[r1].layoutIssues = run[r2].layoutIssues
            /\ run[r1].iterations = run[r2].iterations
            /\ run[r1].terminal = run[r2].terminal
            /\ run[r1].result = run[r2].result
            /\ run[r1].pc = run[r2].pc

(* C9 witness: both runs returned after the same two responses, while the *)
(* orchestrator's stored issue list was not empty                         *)
C9_TwinRuns ==
    /\ SameInputs("a", "b") /\ run["a"].responses = run["b"].responses
    /\ Finished("a") /\ Finished("b")
    /\ Len(run["a"].responses) = 2
    /\ state.layoutIssues # <<>>

(* C10: provided every collaborator call settles, every                    *)
(* editSlideWithFeedback invocation that is waiting for the collaborator   *)
(* reaches a terminal outcome (Converged, Exhausted or Failed); every      *)
(* successful collaborator call increases iterations by one, and           *)
(* iterations never exceeds max(1, maxIterations).                         *)
C10_Termination ==
    /\ (IsEdit("a") /\ run["a"].pc \in {"awaitEdit", "awaitFix"})
          ~> (IsEdit("a") /\ Finished("a")
              /\ run["a"].terminal \in {"Converged", "Exhausted", "Failed"})
    /\ [][\A r \in Callers :
            (/\ IsEdit(r) /\ run[r].pc \in {"awaitEdit", "awaitFix"}
             /\ Len(run'[r].responses) = Len(run[r].responses) + 1
             /\ IsText(run'[r].responses[Len(run'[r].responses)])) =>
                /\ run'[r].iterations = run[r].iterations + 1
                /\ run'[r].iterations <= IF run[r].maxIterations < 1 THEN 1
                                         ELSE run[r].maxIterations]_vars

(* C10 witness: a run that went through the loop and returned *)
C10_LoopLeft ==
    \E r \in Callers :
        /\ IsEdit(r) /\ Finished(r) /\ Len(run[r].responses) = 3
        /\ run[r].iterations = 3 /\ run[r].terminal = "Converged"

(***************************************************************************)
(* Concurrent invocations.                                                 *)
(***************************************************************************)
(* editSlideWithFeedback run alone: the run record after the invocation    *)
(* with the inputs of caller r has received the responses r has received   *)
RunAlone(r) ==
    LET given == run[r]
        options == [autoFix |-> Some(given.autoFix),
                    maxIterations |-> Some(given.maxIterations)]
        after[i \in 0..Len(given.responses)] ==
            IF i = 0 THEN editStart(given.deck, given.slideIndex, options)
            ELSE LET response == given.responses[i]
                 IN  IF ~IsText(response) THEN editRejected(after[i - 1], response[2])
                     ELSE IF after[i - 1].pc = "awaitEdit"
                          THEN editResolved(after[i - 1], response[1])
                          ELSE fixResolved(after[i - 1], response[1])
    IN  after[Len(given.responses)]

(* C27: two editSlideWithFeedback invocations running concurrently on one  *)
(* orchestrator, their collaborator calls interleaved in any order, are    *)
(* each where they would be when run alone with the same responses (same   *)
(* calls, content, issues, iteration count and result), and a step of one  *)
(* invocation changes nothing of the other.                                *)
C27_Isolation ==
    /\ [](\A r \in Callers : IsEdit(r) => run[r] = RunAlone(r))
    /\ [][\A r \in Callers :
            run'[r] # run[r] => \A o \in Callers \ {r} : run'[o] = run[o]]_vars

(* both invocations are in the fix loop at once, on different slides and   *)
(* with different responses received                                       *)
C27_BothInTheLoop ==
    /\ IsEdit("a") /\ IsEdit("b")
    /\ run["a"].pc = "awaitFix" /\ run["b"].pc = "awaitFix"
    /\ run["a"].slideIndex # run["b"].slideIndex
    /\ run["a"].responses # run["b"].responses
    /\ Len(run["a"].responses) = 2

(***************************************************************************)
(* calculateLayoutScore on its own: an issue list grows by one issue at a  *)
(* time, or has one of its issues replaced by one of worse severity, and   *)
(* is scored after every change.                                           *)
(***************************************************************************)
MaxIssues == 5

(* the orchestrator is not running *)
OrchestratorIdle ==
    /\ layoutConfig = DEFAULT_CONFIG
    /\ tables = [clean |-> <<>>, check |-> <<>>]
    /\ state = InitialState
    /\ run = [r \in Callers |-> IdleRun]

(* IssueSeverity, from the mildest to the worst *)
Severities == <<"info", "warning", "error">>
SeverityRank(severity) == CHOOSE k \in 1..Len(Severities) : Severities[k] = severity
IssueOf(severity) ==
    Issue("too-long-text", severity, Slide(0, <<>>, None), "message", "suggestion", <<>>)

Scored(issues) ==
    [fn |-> "calculateLayoutScore", issues |-> issues, score |-> calculateLayoutScore(issues)]

ScoreInit == OrchestratorIdle /\ pure = Scored(<<>>)

AddIssue ==
    /\ Len(pure.issues) < MaxIssues
    /\ \E k \in 1..Len(Severities) :
          pure' = Scored(Append(pure.issues, IssueOf(Severities[k])))
    /\ UNCHANGED <<layoutConfig, state, run, tables>>

WorsenIssue ==
    /\ \E i \in 1..Len(pure.issues), k \in 1..Len(Severities) :
          /\ k > SeverityRank(pure.issues[i].severity)
          /\ pure' = Scored([pure.issues EXCEPT ![i] = IssueOf(Severities[k])])
    /\ UNCHANGED <<layoutConfig, state, run, tables>>

ScoreNext == AddIssue \/ WorsenIssue

ScoreSpec == ScoreInit /\ [][ScoreNext]_vars

CountSeverity(issues, severity) ==
    Cardinality({i \in 1..Len(issues) : issues[i].severity = severity})

(* C11: for an issue list with e errors, w warnings and i infos            *)
(* calculateLayoutScore returns max(0, 100 - 25e - 10w - 3i), an integer   *)
(* in [0,100]; the empty list scores 100, a single error alone 75.         *)
C11_ScoreFormula ==
    LET e == CountSeverity(pure.issues, "error")
        w == CountSeverity(pure.issues, "warning")
        i == CountSeverity(pure.issues, "info")
        raw == 100 - 25 * e - 10 * w - 3 * i
    IN  /\ pure.score = IF raw > 0 THEN raw ELSE 0
        /\ pure.score \in 0..100
        /\ pure.issues = <<>> => pure.score = 100
        /\ (Len(pure.issues) = 1 /\ e = 1) => pure.score = 75

(* C11 witness: five errors, whose penalties exceed 100, score 0 *)
C11_Clamped ==
    /\ CountSeverity(pure.issues, "error") = 5
    /\ pure.score = 0

(* C12: calculateLayoutScore is monotonic: appending an issue to a list,   *)
(* or replacing one of its issues by one of worse severity, never          *)
(* increases the score.                                                    *)
C12_ScoreMonotonic ==
    [][(\/ \E x \in {IssueOf(Severities[k]) : k \in 1..Len(Severities)} :
              pure'.issues = Append(pure.issues, x)
        \/ /\ Len(pure'.issues) = Len(pure.issues)
           /\ \A i \in 1..Len(pure.issues) :
                 SeverityRank(pure'.issues[i].severity)
                    >= SeverityRank(pure.issues[i].severity))
       => pure'.score <= pure.score]_vars

(* C12 witness: an info replaced by an error in a list of three issues    *)
(* leaves a score below the one three infos have                           *)
C12_WorsenedList ==
    /\ Len(pure.issues) = 3
    /\ CountSeverity(pure.issues, "error") = 1
    /\ CountSeverity(pure.issues, "info") = 2
    /\ pure.score = 69

(***************************************************************************)
(* The parser and the serializer (parseSlidev, stringifySlidev).           *)
(* Frontmatter data (a JavaScript object) is the sequence of its           *)
(* <<key, value>> entries in insertion order; {} is <<>>.  The YAML of the *)
(* model is a block of "key: value" lines of plain one-word scalars, and   *)
(* the opening delimiter is always followed by a line break (no language   *)
(* tag, no YAML comment lines).  A layout read from frontmatter is kept as *)
(* the text of its value.                                                  *)
(***************************************************************************)
(* content.replace(/\r\n/g, '\n') *)
RECURSIVE NormalizeLineEndings(_)
NormalizeLineEndings(s) ==
    LET i == IndexOf(s, <<"\r", "\n">>, 1)
    IN  IF i = 0 THEN s
        ELSE SubSeq(s, 1, i - 1) \o NL \o NormalizeLineEndings(SubSeq(s, i + 2, Len(s)))

(* the closing delimiter gray-matter looks for: '\n' + '---' *)
Closer == NL \o Dashes

YamlPair(line) ==
    LET c == IndexOf(line, <<":", " ">>, 1)
    IN  <<SubSeq(line, 1, c - 1), Trim(SubSeq(line, c + 2, Len(line)))>>

YamlParse(block) ==
    LET lines == SelectSeq(SplitOn(block, NL), LAMBDA l : Trim(l) # <<>>)
    IN  [i \in 1..Len(lines) |-> YamlPair(lines[i])]

(* YAML the engine rejects with a YAMLException: a second mapping entry on *)
(* the line ("a: b: c"), or a flow sequence that is never closed ("a: [b") *)
YamlMalformed(line) ==
    LET value == YamlPair(line)[2]
    IN  \/ Includes(value, <<":", " ">>)
        \/ StartsWith(value, <<"[">>) /\ ~EndsWith(value, <<"]">>)

YamlThrows(block) ==
    LET lines == SelectSeq(SplitOn(block, NL), LAMBDA l : Trim(l) # <<>>)
    IN  \E i \in 1..Len(lines) : YamlMalformed(lines[i])

(* the value of an expression that is worked out once: x in {e}, The({f(x)}) *)
The(S) == CHOOSE x \in S : TRUE

(* the file of a string that opens with a dashes line: the block up to the *)
(* closing line (closeIndex in rest) and the content behind it, less one   *)
(* line break                                                              *)
MatterFile(rest, closeIndex) ==
    LET raw == IF closeIndex = 0 THEN rest ELSE SubSeq(rest, 1, closeIndex - 1)
        after == IF closeIndex = 0 THEN <<>>
                 ELSE SubSeq(rest, closeIndex + Len(Closer), Len(rest))
        a1 == IF after # <<>> /\ after[1] = "\r" THEN Tail(after) ELSE after
        a2 == IF a1 # <<>> /\ a1[1] = "\n" THEN Tail(a1) ELSE a1
    IN  The({[data |-> IF empty \/ thrown THEN <<>> ELSE YamlParse(raw),
              content |-> a2, thrown |-> thrown] :
                empty \in {Trim(raw) = <<>>}, thrown \in {YamlThrows(raw)}})

(* matter(str) of gray-matter: { data, content }, or the exception of the  *)
(* YAML engine (thrown)                                                    *)
GrayMatter(str) ==
    The({IF ~StartsWith(s, Dashes) \/ (Len(s) >= 4 /\ s[4] = "-")
         THEN [data |-> <<>>, content |-> s, thrown |-> FALSE]
         ELSE The({MatterFile(SubSeq(s, 4, Len(s)), closeIndex) :
                      closeIndex \in {IndexOf(SubSeq(s, 4, Len(s)), Closer, 1)}}) :
            s \in {str}})

(* trimmed.split(/\n---\n/).map(part => part.trim()).filter(part => part.length > 0) *)
splitIntoSlides(content) ==
    LET trimmed == Trim(content)
        parts == SplitOn(trimmed, NL \o Dashes \o NL)
    IN  IF trimmed = <<>> THEN <<>>
        ELSE SelectSeq([i \in 1..Len(parts) |-> Trim(parts[i])], LAMBDA part : Len(part) > 0)

(* content.match(/^---\n([\s\S]*?)\n---\n?/): the captured block and the  *)
(* length of the whole match, None when there is no match                 *)
FrontmatterMatch(content) ==
    LET close == IF StartsWith(content, Dashes \o NL) THEN IndexOf(content, Closer, 5) ELSE 0
        end == close + 3
    IN  IF close = 0 THEN None
        ELSE Some([inner |-> SubSeq(content, 5, close - 1),
                   length |-> IF end < Len(content) /\ content[end + 1] = "\n"
                              THEN end + 1 ELSE end])

NotesOpen == <<"<", "!", "-", "-">>
NotesClose == <<"-", "-", ">">>
NoteWord == <<"n", "o", "t", "e">>

(* /<!--\s*notes?\s*-->/i at position i: the position after it, 0 if none *)
NotesMarkerEnd(s, i) ==
    IF ~MatchAt(s, NotesOpen, i) THEN 0
    ELSE LET w == RunEnd(s, i + Len(NotesOpen), IsSpace)
             e == IF w + 4 <= Len(s) /\ ToLowerChar(s[w + 4]) = "s" THEN w + 5 ELSE w + 4
             c == RunEnd(s, e, IsSpace)
         IN  IF MatchAt(ToLower(s), NoteWord, w) /\ MatchAt(s, NotesClose, c)
             THEN c + Len(NotesClose) ELSE 0

(* content.match(/<!--\s*notes?\s*-->\s*([\s\S]*?)(?:<!--|$)/i), [1].trim() *)
parseNotes(content) ==
    LET starts == {i \in 1..Len(content) : NotesMarkerEnd(content, i) # 0}
    IN  IF starts = {} THEN None
        ELSE LET from == RunEnd(content, NotesMarkerEnd(content, MinOf(starts)), IsSpace)
                 next == IndexOf(content, NotesOpen, from)
             IN  Some(Trim(SubSeq(content, from, IF next = 0 THEN Len(content) ELSE next - 1)))

(* data.layout *)
LayoutOf(data) ==
    LET hits == {i \in 1..Len(data) : data[i][1] = <<"l", "a", "y", "o", "u", "t">>}
    IN  IF hits = {} \/ data[MaxOf(hits)][2] = <<>> THEN None ELSE Some(data[MaxOf(hits)][2])

(* a block the regex matches but matter() throws on is left alone (catch) *)
SlideOf(content, index, frontmatterMatch, file) ==
    LET fm == IF file.thrown THEN None ELSE frontmatterMatch
        data == file.data
    IN  [index |-> index,
         content |-> IF fm = None THEN content
                     ELSE Trim(SubSeq(content, fm[1].length + 1, Len(content))),
         frontmatter |-> IF fm = None THEN None ELSE Some(data),
         layout |-> IF fm = None THEN None ELSE LayoutOf(data),
         notes |-> parseNotes(content)]

parseSlide(content, index) ==
    The(UNION {{SlideOf(content, index, frontmatterMatch, file) :
                   file \in {IF frontmatterMatch = None THEN GrayMatter(<<>>)
                             ELSE GrayMatter(Dashes \o NL \o frontmatterMatch[1].inner
                                             \o NL \o Dashes)}} :
               frontmatterMatch \in {FrontmatterMatch(content)}})

(* the outcome of parseSlidev for its caller: the deck, or the exception   *)
(* of the top-level matter() call, which no handler catches                *)
DeckOf(normalizedContent, file) ==
    IF file.thrown THEN [ok |-> FALSE, error |-> "YAMLException"]
    ELSE [ok |-> TRUE, error |-> <<>>,
          deck |-> The({[frontmatter |-> file.data,
                         slides |-> [i \in 1..Len(slideContents) |->
                                        The({parseSlide(part, i - 1) :
                                                part \in {slideContents[i]}})],
                         raw |-> normalizedContent] :
                           slideContents \in {splitIntoSlides(file.content)}})]

parseSlidevOutcome(content) ==
    The(UNION {{DeckOf(normalizedContent, file) : file \in {GrayMatter(normalizedContent)}} :
               normalizedContent \in {Trim(NormalizeLineEndings(content))}})

(* the deck of a text the YAML engine accepts *)
parseSlidev(content) == parseSlidevOutcome(content).deck

RECURSIVE EscapeQuotes(_)
EscapeQuotes(value) ==
    IF value = <<>> THEN <<>>
    ELSE (IF Head(value) = "\"" THEN <<"\\", "\"">> ELSE <<Head(value)>>)
         \o EscapeQuotes(Tail(value))

formatYamlValue(value) ==
    IF Includes(value, <<":">>) \/ Includes(value, <<"#">>) \/ Includes(value, NL)
    THEN <<"\"">> \o EscapeQuotes(value) \o <<"\"">>
    ELSE value

(* `---\n${yaml}\n---` with one "key: value" line per entry *)
stringifyFrontmatter(data) ==
    Dashes \o NL
    \o JoinWith([i \in 1..Len(data) |-> data[i][1] \o <<":", " ">> \o formatYamlValue(data[i][2])],
                NL)
    \o NL \o Dashes

NotesMarker == <<"<", "!", "-", "-", " ", "n", "o", "t", "e", "s", " ", "-", "-", ">">>

stringifySlide(slide) ==
    LET head == IF slide.frontmatter # None /\ Len(slide.frontmatter[1]) > 0
                THEN <<stringifyFrontmatter(slide.frontmatter[1])>> ELSE <<>>
        notes == IF slide.notes # None /\ slide.notes[1] # <<>>
                 THEN <<NL \o NotesMarker \o NL \o slide.notes[1]>> ELSE <<>>
    IN  JoinWith(head \o <<slide.content>> \o notes, NL)

stringifySlidev(deck) ==
    LET head == IF Len(deck.frontmatter) > 0
                THEN <<stringifyFrontmatter(deck.frontmatter)>> ELSE <<>>
        parts[i \in 0..Len(deck.slides)] ==
            IF i = 0 THEN head
            ELSE parts[i - 1]
                 \o (IF i - 1 > 0 \/ Len(parts[i - 1]) > 0 THEN <<Dashes>> ELSE <<>>)
                 \o <<stringifySlide(deck.slides[i])>>
    IN  JoinWith(parts[Len(deck.slides)], NL \o NL)

(***************************************************************************)
(* Parsing a document, serializing the deck and parsing it again.          *)
(***************************************************************************)
MaxParseSlides == 2

HeadTitle == <<"-", "-", "-", "\n", "t", "i", "t", "l", "e", ":", " ", "A", "\n", "-", "-", "-", "\n">>
BodyPlain == <<"#", " ", "A">>
BodyText == <<"H", "i">>
BodyNotes == <<"#", " ", "B", "\n", "<", "!", "-", "-", " ", "n", "o", "t", "e", "s", " ", "-", "-", ">",
               "\n", "s", "a", "y">>
BodyFrontmatter == <<"-", "-", "-", "\n", "l", "a", "y", "o", "u", "t", ":", " ", "c", "\n",
                     "-", "-", "-", " ", "\n", "#", " ", "C">>
HeadMalformed == <<"-", "-", "-", "\n", "a", ":", " ", "b", ":", " ", "c", "\n", "-", "-", "-", "\n">>
BodyMalformed == <<"-", "-", "-", "\n", "a", ":", " ", "[", "b", "\n",
                   "-", "-", "-", " ", "\n", "#", " ", "D">>
Heads == {<<>>, HeadTitle, HeadMalformed}
Bodies == {BodyPlain, BodyText, BodyNotes, BodyFrontmatter, BodyMalformed}
Separators == {NL \o Dashes \o NL, NL \o NL \o Dashes \o NL \o NL}

BodyLists == UNION {[1..n -> Bodies] : n \in 0..MaxParseSlides}

ParseInputs ==
    {head \o JoinWith(bodies, sep) : head \in Heads, bodies \in BodyLists, sep \in Separators}

Parsing(text) ==
    [fn |-> "parseSlidev", text |-> text, deck |-> None, out |-> None, again |-> None,
     thrown |-> None]

ParseInit ==
    /\ OrchestratorIdle
    /\ pure \in {Parsing(text) : text \in ParseInputs}

Parsed(outcome) ==
    IF outcome.ok THEN Some(outcome.deck) ELSE None

Raised(outcome, stage) ==
    IF outcome.ok THEN None ELSE Some([stage |-> stage, error |-> outcome.error])

Parse ==
    /\ pure.fn = "parseSlidev" /\ pure.deck = None /\ pure.thrown = None
    /\ LET outcome == parseSlidevOutcome(pure.text)
       IN  pure' = [pure EXCEPT !.deck = Parsed(outcome),
                                !.thrown = Raised(outcome, "parse")]
    /\ UNCHANGED <<layoutConfig, state, run, tables>>

Stringify ==
    /\ pure.fn = "parseSlidev" /\ pure.deck # None /\ pure.out = None
    /\ pure' = [pure EXCEPT !.out = Some(stringifySlidev(pure.deck[1]))]
    /\ UNCHANGED <<layoutConfig, state, run, tables>>

Reparse ==
    /\ pure.fn = "parseSlidev" /\ pure.out # None /\ pure.again = None
    /\ pure.thrown = None
    /\ LET outcome == parseSlidevOutcome(pure.out[1])
       IN  pure' = [pure EXCEPT !.again = Parsed(outcome),
                                !.thrown = Raised(outcome, "reparse")]
    /\ UNCHANGED <<layoutConfig, state, run, tables>>

ParseNext == Parse \/ Stringify \/ Reparse

ParseSpec == ParseInit /\ [][ParseNext]_vars

(***************************************************************************)
(* Claims about the parser.                                                *)
(***************************************************************************)
RECURSIVE SqueezeSpace(_)
SqueezeSpace(s) ==
    IF s = <<>> THEN <<>>
    ELSE IF IsSpace(Head(s))
         THEN (IF Len(s) > 1 /\ IsSpace(s[2]) THEN <<>> ELSE <<" ">>) \o SqueezeSpace(Tail(s))
         ELSE <<Head(s)>> \o SqueezeSpace(Tail(s))

(* whitespace normalization: runs of whitespace are one space, none at the ends *)
NormalizeSpace(s) == SqueezeSpace(Trim(s))

NormalizeOption(o) == IF o = None THEN None ELSE Some(NormalizeSpace(o[1]))

NormalizeData(data) ==
    [i \in 1..Len(data) |-> <<NormalizeSpace(data[i][1]), NormalizeSpace(data[i][2])>>]

SameSlide(a, b) ==
    /\ a.index = b.index
    /\ NormalizeSpace(a.content) = NormalizeSpace(b.content)
    /\ (a.frontmatter = None) = (b.frontmatter = None)
    /\ a.frontmatter # None /\ b.frontmatter # None
       => NormalizeData(a.frontmatter[1]) = NormalizeData(b.frontmatter[1])
    /\ NormalizeOption(a.layout) = NormalizeOption(b.layout)
    /\ NormalizeOption(a.notes) = NormalizeOption(b.notes)

SameDeck(d, e) ==
    /\ NormalizeData(d.frontmatter) = NormalizeData(e.frontmatter)
    /\ Len(d.slides) = Len(e.slides)
    /\ \A i \in 1..MinOf({Len(d.slides), Len(e.slides)}) : SameSlide(d.slides[i], e.slides[i])

Reparsed == pure.fn = "parseSlidev" /\ pure.again # None

(* C13: round-trip law.  A deck produced by parseSlidev, serialized by     *)
(* stringifySlidev and parsed again has the same global frontmatter and    *)
(* the same slide sequence (index, content, frontmatter, layout, notes),   *)
(* up to whitespace normalization.                                         *)
C13_RoundTrip == Reparsed => SameDeck(pure.deck[1], pure.again[1])

HoldsNotesMarker(content) == \E i \in 1..Len(content) : NotesMarkerEnd(content, i) # 0

(* C20: the content of every slide produced by parseSlidev holds neither   *)
(* the slide's own leading frontmatter block nor the notes marker comment  *)
(* with the notes text behind it.                                          *)
C20_ContentStripped ==
    pure.fn = "parseSlidev" /\ pure.deck # None
    => \A i \in 1..Len(pure.deck[1].slides) :
          LET slide == pure.deck[1].slides[i]
          IN  /\ ~HoldsNotesMarker(slide.content)
              /\ slide.frontmatter # None => FrontmatterMatch(slide.content) = None

(***************************************************************************)
(* Sequences of deck operations on parsed decks.  pure.deck is the deck    *)
(* the caller holds; pure.last records the latest call: the deck it was    *)
(* given, its arguments, whether it threw, and the deck it returned.       *)
(***************************************************************************)
MaxDeckSlides == 3

DocTexts ==
    {<<>>, BodyPlain, BodyPlain \o SlideSeparator \o BodyText, HeadTitle \o BodyPlain,
     BodyNotes, BodyPlain \o SlideSeparator \o BodyFrontmatter}

ParsedDecks == {parseSlidev(text) : text \in DocTexts}

Positions == (0 - 2)..(MaxDeckSlides + 1)
UpdateContents == {BodyText}
SlideInputs ==
    {[content |-> c, frontmatter |-> None, layout |-> None, notes |-> None] :
        c \in {BodyText, Undefined}}
SplitBodyLists == {<<BodyPlain, BodyText>>, <<BodyText, BodyPlain, BodyText>>}

NoCall == [op |-> "none"]

Called(op, before, index, arg, outcome) ==
    [op |-> op, before |-> before, index |-> index, arg |-> arg,
     thrown |-> ~outcome.ok, error |-> outcome.error,
     result |-> IF outcome.ok THEN Some(outcome.deck) ELSE None]

Returns(deck) == [ok |-> TRUE, error |-> <<>>, deck |-> deck]

Holding(deck, last) == [fn |-> "deckOperations", deck |-> deck, last |-> last]

(* the caller keeps the returned deck, or the one it had after a throw *)
AfterCall(op, index, arg, outcome) ==
    /\ pure' = Holding(IF outcome.ok THEN outcome.deck ELSE pure.deck,
                       Called(op, pure.deck, index, arg, outcome))
    /\ UNCHANGED <<layoutConfig, state, run, tables>>

DeckInit ==
    /\ OrchestratorIdle
    /\ pure \in {Holding(deck, NoCall) : deck \in ParsedDecks}

UpdateSlide ==
    /\ pure.fn = "deckOperations"
    /\ \E index \in Positions, content \in UpdateContents :
          AfterCall("updateSlide", index, content, updateSlide(pure.deck, index, content))

InsertSlide ==
    /\ pure.fn = "deckOperations"
    /\ Len(pure.deck.slides) < MaxDeckSlides
    /\ \E index \in Positions, slide \in SlideInputs :
          AfterCall("insertSlide", index, slide, Returns(insertSlide(pure.deck, index, slide)))

RemoveSlide ==
    /\ pure.fn = "deckOperations"
    /\ \E index \in Positions :
          AfterCall("removeSlide", index, <<>>, Returns(removeSlide(pure.deck, index)))

(* splitCrowdedSlide on a slide that exists, for the bodies splitSlide gave *)
SplitCrowdedSlide ==
    /\ pure.fn = "deckOperations"
    /\ \E index \in Positions, bodies \in SplitBodyLists :
          /\ getSlide(pure.deck, index) # None
          /\ Len(pure.deck.slides) + Len(bodies) - 1 <= MaxDeckSlides
          /\ AfterCall("splitCrowdedSlide", index, bodies, SplitDeck(pure.deck, index, bodies))

DeckNext == UpdateSlide \/ InsertSlide \/ RemoveSlide \/ SplitCrowdedSlide

DeckSpec == DeckInit /\ [][DeckNext]_vars

(***************************************************************************)
(* Claims about the deck operations.                                       *)
(***************************************************************************)
LastCall(op) == pure.fn = "deckOperations" /\ pure.last.op = op

InRange(index, deck) == index >= 0 /\ index < Len(deck.slides)

IndexedByPosition(deck) == \A i \in 1..Len(deck.slides) : deck.slides[i].index = i - 1

(* C14: index invariant.  In every deck reached from parseSlidev by        *)
(* updateSlide, insertSlide, removeSlide and splitCrowdedSlide calls, each *)
(* slide's index is its 0-based position in the slides sequence.           *)
C14_IndexInvariant == pure.fn = "deckOperations" => IndexedByPosition(pure.deck)

(* the slides behind position 0 moved down one place after a removal *)
C14_Renumbered ==
    /\ LastCall("removeSlide") /\ pure.last.index = 0
    /\ Len(pure.last.before.slides) >= 2
    /\ pure.deck.slides[1].content = pure.last.before.slides[2].content

IndexError(error) == error # <<>> /\ error[1] = "Invalid slide index"

(* C16: updateSlide with an index outside [0, length) fails with an index  *)
(* error and produces no deck; with an index inside [0, length) it changes *)
(* only the content of the slide at that index: every other slide, the     *)
(* frontmatter and the slide count stay as they were.                      *)
C16_UpdateValidated ==
    LastCall("updateSlide")
    => LET call == pure.last
           before == call.before
       IN  IF ~InRange(call.index, before)
           THEN call.thrown /\ IndexError(call.error) /\ call.result = None
           ELSE /\ ~call.thrown /\ call.result # None
                /\ call.result[1].frontmatter = before.frontmatter
                /\ Len(call.result[1].slides) = Len(before.slides)
                /\ \A i \in 1..Len(before.slides) :
                      call.result[1].slides[i] =
                          IF i = call.index + 1
                          THEN [before.slides[i] EXCEPT !.content = call.arg]
                          ELSE before.slides[i]

(* an update one past the last slide of a deck that has slides *)
C16_UpdateRejected ==
    /\ LastCall("updateSlide") /\ pure.last.thrown
    /\ pure.last.index = Len(pure.last.before.slides)
    /\ Len(pure.last.before.slides) >= 1
    /\ pure.deck = pure.last.before

(* C17: insertSlide with a position outside [0, length] fails with an      *)
(* index error and returns no deck; the slide is inserted nowhere.         *)
C17_InsertValidated ==
    LastCall("insertSlide")
    /\ (pure.last.index < 0 \/ pure.last.index > Len(pure.last.before.slides))
    => pure.last.thrown /\ IndexError(pure.last.error) /\ pure.last.result = None

(* C18: removeSlide with an index outside [0, length) fails with an index  *)
(* error and returns no deck, not even an unchanged copy of its input.     *)
C18_RemoveValidated ==
    LastCall("removeSlide") /\ ~InRange(pure.last.index, pure.last.before)
    => pure.last.thrown /\ IndexError(pure.last.error) /\ pure.last.result = None

(***************************************************************************)
(* insertSlide followed by removeSlide at the same index.                  *)
(***************************************************************************)
Undoing(deck, index, slide) ==
    [fn |-> "insertThenRemove", deck |-> deck, index |-> index, slide |-> slide,
     inserted |-> None, removed |-> None]

UndoInit ==
    /\ OrchestratorIdle
    /\ pure \in {Undoing(deck, index, slide) :
                    deck \in ParsedDecks, index \in Positions, slide \in SlideInputs}

InsertFirst ==
    /\ pure.fn = "insertThenRemove" /\ pure.inserted = None
    /\ pure' = [pure EXCEPT !.inserted = Some(insertSlide(pure.deck, pure.index, pure.slide))]
    /\ UNCHANGED <<layoutConfig, state, run, tables>>

RemoveAfter ==
    /\ pure.fn = "insertThenRemove" /\ pure.inserted # None /\ pure.removed = None
    /\ pure' = [pure EXCEPT !.removed = Some(removeSlide(pure.inserted[1], pure.index))]
    /\ UNCHANGED <<layoutConfig, state, run, tables>>

UndoNext == InsertFirst \/ RemoveAfter

UndoSpec == UndoInit /\ [][UndoNext]_vars

Undone == pure.fn = "insertThenRemove" /\ pure.removed # None

(* C19: for a deck d (as parseSlidev produces it), a slide s and an index  *)
(* i with 0 <= i <= length(d), removeSlide(insertSlide(d, i, s), i) has    *)
(* the frontmatter of d and the slides of d: the same contents in the same *)
(* order with the same indices.                                            *)
C19_InsertThenRemove ==
    Undone /\ pure.index >= 0 /\ pure.index <= Len(pure.deck.slides)
    => /\ pure.removed[1].frontmatter = pure.deck.frontmatter
       /\ Len(pure.removed[1].slides) = Len(pure.deck.slides)
       /\ \A i \in 1..Len(pure.deck.slides) :
             /\ pure.removed[1].slides[i].content = pure.deck.slides[i].content
             /\ pure.removed[1].slides[i].index = pure.deck.slides[i].index

(* a slide put between two slides and taken out again *)
C19_UndoneInTheMiddle ==
    /\ Undone /\ pure.index = 1 /\ Len(pure.deck.slides) = 2
    /\ Len(pure.inserted[1].slides) = 3
    /\ pure.inserted[1].slides[2].content = BodyText

(***************************************************************************)
(* The deck operations on the JavaScript heap.  A deck object refers to    *)
(* its slides array, the array refers to its slide objects; a reference is *)
(* a position in the heap.  Each operation is taken statement by           *)
(* statement: what it allocates and what it writes in place.               *)
(***************************************************************************)
MaxHeapCalls == 2

HeapPositions == {0 - 1, 0, 1, 2}

SlideObject(slide) ==
    [kind |-> "slide", index |-> slide.index, content |-> slide.content,
     frontmatter |-> slide.frontmatter, layout |-> slide.layout, notes |-> slide.notes]

ArrayObject(items) == [kind |-> "array", items |-> items]

Alloc(heap, object) == [heap |-> Append(heap, object), ref |-> Len(heap) + 1]

AllocAll(heap, objects) ==
    LET F[i \in 0..Len(objects)] ==
            IF i = 0 THEN [heap |-> heap, refs |-> <<>>]
            ELSE LET made == Alloc(F[i - 1].heap, objects[i])
                 IN  [heap |-> made.heap, refs |-> Append(F[i - 1].refs, made.ref)]
    IN  F[Len(objects)]

(* [...deck.slides] *)
CopyArray_alias(heap, array) == [heap |-> heap, ref |-> array]

CopyArray(heap, array) == Alloc(heap, heap[array])

(* newSlides.map((s, i) => ({ ...s, index: i })), then { ...deck, slides } *)
ReindexedDeck(heap, deck, newSlides) ==
    LET items == heap[newSlides].items
        copies == AllocAll(heap, [i \in 1..Len(items) |->
                                     [heap[items[i]] EXCEPT !.index = i - 1]])
        array == Alloc(copies.heap, ArrayObject(copies.refs))
        made == Alloc(array.heap, [heap[deck] EXCEPT !.slides = array.ref])
    IN  [heap |-> made.heap, ok |-> TRUE, ref |-> made.ref]

updateSlideOnHeap(heap, deck, index, content) ==
    LET copy == CopyArray(heap, heap[deck].slides)
        newSlides == copy.ref
        items == copy.heap[newSlides].items
    IN  IF index < 0 \/ index >= Len(items)
        THEN [heap |-> copy.heap, ok |-> FALSE, ref |-> 0]
        ELSE LET slide == Alloc(copy.heap,
                                [copy.heap[items[index + 1]] EXCEPT !.content = content])
                 stored == [slide.heap EXCEPT ![newSlides].items[index + 1] = slide.ref]
                 made == Alloc(stored, [stored[deck] EXCEPT !.slides = newSlides])
             IN  [heap |-> made.heap, ok |-> TRUE, ref |-> made.ref]

insertSlideOnHeap(heap, deck, index, slide) ==
    LET copy == CopyArray(heap, heap[deck].slides)
        newSlides == copy.ref
        newSlide == Alloc(copy.heap,
                          SlideObject([index |-> index,
                                       content |-> IF slide.content = Undefined THEN <<>>
                                                   ELSE slide.content,
                                       frontmatter |-> slide.frontmatter,
                                       layout |-> slide.layout, notes |-> slide.notes]))
        items == newSlide.heap[newSlides].items
        at == SpliceStart(Len(items), index)
        spliced == [newSlide.heap EXCEPT ![newSlides].items =
                        SubSeq(items, 1, at) \o <<newSlide.ref>>
                        \o SubSeq(items, at + 1, Len(items))]
    IN  ReindexedDeck(spliced, deck, newSlides)

removeSlideOnHeap(heap, deck, index) ==
    LET items == heap[heap[deck].slides].items
        F[i \in 0..Len(items)] ==
            IF i = 0 THEN <<>>
            ELSE IF i - 1 # index THEN Append(F[i - 1], items[i]) ELSE F[i - 1]
        newSlides == Alloc(heap, ArrayObject(F[Len(items)]))
    IN  ReindexedDeck(newSlides.heap, deck, newSlides.ref)

(* a deck value as objects on the heap, and the value a deck object holds *)
Load(heap, deck) ==
    LET slides == AllocAll(heap, [i \in 1..Len(deck.slides) |-> SlideObject(deck.slides[i])])
        array == Alloc(slides.heap, ArrayObject(slides.refs))
    IN  Alloc(array.heap, [kind |-> "deck", frontmatter |-> deck.frontmatter,
                           slides |-> array.ref, raw |-> deck.raw])

Deref(heap, deck) ==
    LET items == heap[heap[deck].slides].items
    IN  [frontmatter |-> heap[deck].frontmatter,
         slides |-> [i \in 1..Len(items) |->
                        LET o == heap[items[i]]
                        IN  [index |-> o.index, content |-> o.content,
                             frontmatter |-> o.frontmatter, layout |-> o.layout,
                             notes |-> o.notes]],
         raw |-> heap[deck].raw]

DeckRefs(heap) == {a \in 1..Len(heap) : heap[a].kind = "deck"}

OnHeap(heap, calls, last) ==
    [fn |-> "heapOperations", heap |-> heap, calls |-> calls, last |-> last]

HeapInit ==
    /\ OrchestratorIdle
    /\ pure \in {OnHeap(Load(<<>>, deck).heap, 0, NoCall) : deck \in ParsedDecks}

HeapCall(op, deck, index, arg, outcome) ==
    /\ pure' = OnHeap(outcome.heap, pure.calls + 1,
                      [op |-> op, deck |-> deck, index |-> index, arg |-> arg,
                       ok |-> outcome.ok, ref |-> outcome.ref])
    /\ UNCHANGED <<layoutConfig, state, run, tables>>

UpdateOnHeap ==
    /\ pure.fn = "heapOperations" /\ pure.calls < MaxHeapCalls
    /\ \E deck \in DeckRefs(pure.heap), index \in HeapPositions, content \in UpdateContents :
          HeapCall("updateSlide", deck, index, content,
                   updateSlideOnHeap(pure.heap, deck, index, content))

InsertOnHeap ==
    /\ pure.fn = "heapOperations" /\ pure.calls < MaxHeapCalls
    /\ \E deck \in DeckRefs(pure.heap), index \in HeapPositions, slide \in SlideInputs :
          HeapCall("insertSlide", deck, index, slide,
                   insertSlideOnHeap(pure.heap, deck, index, slide))

RemoveOnHeap ==
    /\ pure.fn = "heapOperations" /\ pure.calls < MaxHeapCalls
    /\ \E deck \in DeckRefs(pure.heap), index \in HeapPositions :
          HeapCall("removeSlide", deck, index, <<>>,
                   removeSlideOnHeap(pure.heap, deck, index))

HeapNext == UpdateOnHeap \/ InsertOnHeap \/ RemoveOnHeap

HeapSpec == HeapInit /\ [][HeapNext]_vars

(* the heap operations build the decks of updateSlide, insertSlide and     *)
(* removeSlide above                                                       *)
OnHeapAgrees ==
    pure.fn = "heapOperations" /\ pure.last.op # "none"
    => LET call == pure.last
           given == Deref(pure.heap, call.deck)
       IN  CASE call.op = "updateSlide" ->
                    LET r == updateSlide(given, call.index, call.arg)
                    IN  call.ok = r.ok /\ (r.ok => Deref(pure.heap, call.ref) = r.deck)
             [] call.op = "insertSlide" ->
                    call.ok /\ Deref(pure.heap, call.ref) = insertSlide(given, call.index, call.arg)
             [] call.op = "removeSlide" ->
                    call.ok /\ Deref(pure.heap, call.ref) = removeSlide(given, call.index)

(* C15: updateSlide, insertSlide and removeSlide are non-destructive.      *)
(* Whether the call returns or throws, every object that was on the heap   *)
(* (the input deck, its slides array, each slide object) is as it was, and *)
(* a returned deck is a new object with a new slides array.                *)
C15_NonDestructive ==
    [][pure.fn = "heapOperations"
       => /\ \A a \in 1..Len(pure.heap) : pure'.heap[a] = pure.heap[a]
          /\ pure'.last.ok
             => /\ pure'.last.ref > Len(pure.heap)
                /\ pure'.heap[pure'.last.ref].slides > Len(pure.heap)]_vars

(* an update that returned a deck with the new content while the deck it   *)
(* was given still has the old content                                     *)
C15_InputKept ==
    /\ pure.fn = "heapOperations" /\ pure.last.op = "updateSlide" /\ pure.last.ok
    /\ Deref(pure.heap, pure.last.ref).slides[pure.last.index + 1].content = pure.last.arg
    /\ Deref(pure.heap, pure.last.deck).slides[pure.last.index + 1].content # pure.last.arg

MalformedBlock(content) ==
    /\ FrontmatterMatch(content) # None
    /\ YamlThrows(FrontmatterMatch(content)[1].inner)

(* C21: parseSlidev is total.  For every text, also one whose top-level or *)
(* per-slide frontmatter block is malformed, it returns a deck and never   *)
(* raises; a slide body with a malformed block is kept as plain content,   *)
(* and an empty body gives a deck of zero slides.                          *)
C21_ParseTotal ==
    pure.fn = "parseSlidev"
    => /\ pure.thrown = None
       /\ pure.deck # None
          => /\ GrayMatter(pure.deck[1].raw).content = <<>> => Len(pure.deck[1].slides) = 0
             /\ \A i \in 1..Len(pure.deck[1].slides) :
                   MalformedBlock(pure.deck[1].slides[i].content)
                   => pure.deck[1].slides[i].frontmatter = None

(***************************************************************************)
(* checkSlideLayout on slides of a known shape: n bullet lines, or a text  *)
(* of k plain characters under one kind of markup.                         *)
(***************************************************************************)
MaxBullets == 10
MaxPlain == 12

Letters == <<"a", "b", "c", "d", "e", "f", "g", "h", "i", "j", "k", "l", "m",
             "n", "o", "p", "q", "r", "s", "t", "u", "v", "w", "x", "y", "z">>
PlainText(k) == [i \in 1..k |-> Letters[((i - 1) % Len(Letters)) + 1]]

BulletMarkers == {"-", "*", "+"}
BulletContent(marker, n, titled) ==
    (IF titled THEN <<"#", " ", "L", "\n">> ELSE <<>>) \o Repeat(<<marker, " ", "a", "\n">>, n)

(* n numbered list lines, and one line of prose that mentions n versions *)
NumberedContent(n) == Repeat(<<"1", ".", " ", "a", "\n">>, n)
ProseContent(n) == <<"s", "e", "e">> \o Repeat(<<" ", "v", "1", ".">>, n)

BulletConfigs == {<<>>, [maxBulletsPerSlide |-> 2], [maxBulletsPerSlide |-> 3]}

Markups == {"none", "heading", "bold", "code", "image"}
Marked(markup, text) ==
    CASE markup = "none" -> text
      [] markup = "heading" -> <<"#", "#", " ">> \o text
      [] markup = "bold" -> <<"*", "*">> \o text \o <<"*", "*">>
      [] markup = "code" -> text \o NL \o Fence \o <<"j", "s">> \o NL
                            \o <<"l", "e", "t", " ", "x", " ", "=", " ", "1", "2", "3", "4">>
                            \o NL \o Fence
      [] markup = "image" -> <<"!", "[", "a", "l", "t", "]", "(", "p", "i", "c", ".", "p", "n", "g", ")">>
                             \o NL \o text

Checking(shape, n, slide, config) ==
    [fn |-> "checkSlideLayout", shape |-> shape, n |-> n, slide |-> slide,
     config |-> config, issues |-> None]

LayoutInputs ==
    {Checking("bullets", n, Slide(0, BulletContent(marker, n, titled), None), config) :
        marker \in BulletMarkers, n \in 0..MaxBullets, titled \in BOOLEAN,
        config \in BulletConfigs}
    \cup
    {Checking("numbered", n, Slide(0, NumberedContent(n), None), config) :
        n \in 0..MaxBullets, config \in BulletConfigs}
    \cup
    {Checking("prose", n, Slide(0, ProseContent(n), None), config) :
        n \in 0..MaxBullets, config \in BulletConfigs}
    \cup
    {Checking("text", k, Slide(0, Marked(markup, PlainText(k)), None), <<>>) :
        markup \in Markups, k \in 0..MaxPlain}

LayoutInit ==
    /\ OrchestratorIdle
    /\ pure \in LayoutInputs

CheckSlide ==
    /\ pure.fn = "checkSlideLayout" /\ pure.issues = None
    /\ pure' = [pure EXCEPT !.issues = Some(checkSlideLayout(pure.slide, pure.config))]
    /\ UNCHANGED <<layoutConfig, state, run, tables>>

LayoutNext == CheckSlide

LayoutSpec == LayoutInit /\ [][LayoutNext]_vars

OfType(issues, type) == SelectSeq(issues, LAMBDA issue : issue.type = type)

CheckedShape(shape) ==
    pure.fn = "checkSlideLayout" /\ pure.shape = shape /\ pure.issues # None

(* C22: for a slide of n bullet lines and t = maxBulletsPerSlide,          *)
(* checkSlideLayout gives no too-many-bullets issue when n <= t, exactly   *)
(* one of severity warning when t < n <= 1.5 t, and exactly one of         *)
(* severity error when n > 1.5 t.                                          *)
C22_BulletThresholds ==
    CheckedShape("bullets")
    => LET t == MergeConfig(pure.config).maxBulletsPerSlide
           found == OfType(pure.issues[1], "too-many-bullets")
       IN  IF pure.n <= t THEN found = <<>>
           ELSE /\ Len(found) = 1
                /\ found[1].severity = IF 2 * pure.n > 3 * t THEN "error" ELSE "warning"

(* nine bullets against the default threshold of six: still a warning *)
C22_NineBulletsWarn ==
    /\ CheckedShape("bullets") /\ pure.n = 9 /\ pure.config = <<>>
    /\ \E i \in 1..Len(pure.issues[1]) :
          /\ pure.issues[1][i].type = "too-many-bullets"
          /\ pure.issues[1][i].severity = "warning"

(* C23: checkSlideLayout includes an empty-slide issue, of severity        *)
(* warning and exactly once, if and only if the slide's text without code  *)
(* fences, images, heading markers and inline markup is shorter than 10    *)
(* characters.                                                             *)
C23_EmptySlideIff ==
    CheckedShape("text")
    => LET found == OfType(pure.issues[1], "empty-slide")
       IN  IF pure.n < 10 THEN Len(found) = 1 /\ found[1].severity = "warning"
           ELSE found = <<>>

(* nine plain characters under a heading marker: flagged, though the       *)
(* content is twelve characters long                                       *)
C23_NineUnderHeading ==
    /\ CheckedShape("text") /\ pure.n = 9
    /\ StartsWith(pure.slide.content, <<"#", "#", " ">>)
    /\ Len(pure.slide.content) >= 10
    /\ OfType(pure.issues[1], "empty-slide") # <<>>

(***************************************************************************)
(* cleanMarkdownOutput applied to a collaborator response, and again to    *)
(* its own output.                                                         *)
(***************************************************************************)
MaxFenceDepth == 2

Wrappers == {"markdown", "md", "slidev", "js", "bare"}

Wrapped(wrapper, text) ==
    Fence
    \o (CASE wrapper = "markdown" -> MarkdownWord
          [] wrapper = "md" -> MdWord
          [] wrapper = "slidev" -> SlidevWord
          [] wrapper = "js" -> <<"j", "s">>
          [] wrapper = "bare" -> <<>>)
    \o NL \o text \o NL \o Fence

RECURSIVE WrappedAll(_, _)
WrappedAll(wrappers, text) ==
    IF wrappers = <<>> THEN text
    ELSE Wrapped(Head(wrappers), WrappedAll(Tail(wrappers), text))

TextPrefixed ==
    <<"S", "u", "r", "e", ":", " ">> \o Dashes \o NL \o <<"t", "i", "t", "l", "e", ":", " ", "A">>
    \o NL \o Dashes \o NL \o BodyPlain

(* clean markdown without a fence: a deck whose first slide is one short   *)
(* line, and a slide whose first line is followed by a table rule          *)
TextShortFirstSlide == BodyPlain \o SlideSeparator \o BodyText
TextTable ==
    <<"a", " ", "|", " ", "b", "\n", "-", "-", "-", "|", "-", "-", "-", "\n", "1", " ", "|", " ", "2">>
CleanTexts == {BodyPlain, TextGood, TextTwoSlides, TextShortFirstSlide, TextTable}

CleanCores == CleanTexts \cup {TextPrefixed}

CleanInputs ==
    {WrappedAll(wrappers, core) :
        wrappers \in UNION {[1..n -> Wrappers] : n \in 0..MaxFenceDepth},
        core \in CleanCores}

Cleaning(text) == [fn |-> "cleanMarkdownOutput", text |-> text, once |-> None, twice |-> None]

CleanInit ==
    /\ OrchestratorIdle
    /\ pure \in {Cleaning(text) : text \in CleanInputs}

CleanOnce ==
    /\ pure.fn = "cleanMarkdownOutput" /\ pure.once = None
    /\ pure' = [pure EXCEPT !.once = Some(cleanMarkdownOutput(pure.text))]
    /\ UNCHANGED <<layoutConfig, state, run, tables>>

CleanAgain ==
    /\ pure.fn = "cleanMarkdownOutput" /\ pure.once # None /\ pure.twice = None
    /\ pure' = [pure EXCEPT !.twice = Some(cleanMarkdownOutput(pure.once[1]))]
    /\ UNCHANGED <<layoutConfig, state, run, tables>>

CleanNext == CleanOnce \/ CleanAgain

CleanSpec == CleanInit /\ [][CleanNext]_vars

(* C24: cleanMarkdownOutput is idempotent.  For every collaborator         *)
(* response x, also one with nested or repeated fence wrappers or a short  *)
(* prefix before a separator, cleaning the cleaned text changes nothing.   *)
C24_CleanIdempotent ==
    pure.fn = "cleanMarkdownOutput" /\ pure.twice # None => pure.twice = pure.once

(***************************************************************************)
(* The streaming branch of POST /api/slidev-ai/edit-slide (backend) and    *)
(* the editor that reads its events (frontend editSlide handler).  The     *)
(* collaborator delivers its answer in chunks and may fail before any of   *)
(* them; the client may close the connection while the route is streaming. *)
(* What stream.writeSSE does on a closed connection is the library's       *)
(* business: either the write is dropped and the loop goes on, or it       *)
(* throws into the route's catch.                                          *)
(***************************************************************************)
MaxChunks == 3

StreamTexts == {TextGood, TextShort}

Chunked(text, n) ==
    [i \in 1..n |-> SubSeq(text, ((i - 1) * Len(text)) \div n + 1, (i * Len(text)) \div n)]

(* failAt = k: the stream throws when chunk k is awaited; 0: it never throws *)
StreamPlans ==
    {[chunks |-> Chunked(text, n), failAt |-> f] :
        text \in StreamTexts, n \in 1..MaxChunks, f \in 0..MaxChunks}

EditRequests ==
    {[markdown |-> m, slideIndex |-> i] :
        m \in {BodyPlain \o SlideSeparator \o BodyText, HeadTitle \o BodyPlain},
        i \in 0..1}

(* the route up to the creation of the generator; deck is                  *)
(* core.parseSlidev(markdown)                                              *)
RouteEntered(request, plan, deck) ==
    LET currentSlide == getSlide(deck, request.slideIndex)
    IN  [fn |-> "edit-slide", request |-> request, plan |-> plan, deck |-> deck,
         pc |-> IF currentSlide = None THEN "notFound" ELSE "streaming",
         layoutIssues |-> IF currentSlide = None THEN <<>> ELSE Checked(currentSlide[1]),
         checks |-> IF currentSlide = None THEN <<>>
                    ELSE <<[content |-> currentSlide[1].content, streamed |-> <<>>,
                            opened |-> FALSE]>>,
         parsed |-> deck, received |-> 0, fullText |-> <<>>, events |-> <<>>,
         client |-> [markdown |-> request.markdown, layoutIssues |-> <<>>,
                     connected |-> TRUE, read |-> 0]]

RECURSIVE Flatten(_)
Flatten(chunks) == IF chunks = <<>> THEN <<>> ELSE Head(chunks) \o Flatten(Tail(chunks))

(* cleanMarkdownOutput and checkSlideLayout for every text the route can   *)
(* have accumulated and every slide it can hold                            *)
StreamTables ==
    LET texts == UNION {{Flatten(SubSeq(plan.chunks, 1, k)) : k \in 0..Len(plan.chunks)} :
                           plan \in StreamPlans}
        clean == [t \in texts |-> cleanMarkdownOutput(t)]
        decks == {parseSlidev(request.markdown) : request \in EditRequests}
        given == UNION {{d.slides[i] : i \in 1..Len(d.slides)} : d \in decks}
        slides == given \cup {[sl EXCEPT !.content = clean[t]] : sl \in given, t \in texts}
    IN  [clean |-> clean, check |-> [sl \in slides |-> checkSlideLayout(sl, <<>>)]]

StreamInit ==
    /\ layoutConfig = DEFAULT_CONFIG
    /\ tables = StreamTables
    /\ state = InitialState
    /\ run = [r \in Callers |-> IdleRun]
    /\ pure \in UNION {{RouteEntered(request, plan, deck) :
                            plan \in StreamPlans, deck \in {parseSlidev(request.markdown)}} :
                        request \in EditRequests}

Streaming == pure.fn = "edit-slide" /\ pure.pc = "streaming"

(* the for await loop has ended: the generator is done *)
StreamDrained_early(received, plan) == received >= 1

StreamDrained(received, plan) == received = Len(plan.chunks)

RouteStep(next) ==
    /\ pure' = next
    /\ UNCHANGED <<layoutConfig, state, run, tables>>

(* fullText += chunk; writeSSE({ event: 'chunk' }) *)
NextChunk ==
    /\ Streaming
    /\ ~StreamDrained(pure.received, pure.plan)
    /\ pure.plan.failAt # pure.received + 1
    /\ LET chunk == pure.plan.chunks[pure.received + 1]
       IN  RouteStep([pure EXCEPT !.received = @ + 1, !.fullText = @ \o chunk,
                                  !.events = Append(@, [event |-> "chunk", content |-> chunk])])

(* the generator throws: catch, writeSSE({ event: 'error' }) *)
StreamFails ==
    /\ Streaming
    /\ ~StreamDrained(pure.received, pure.plan)
    /\ pure.plan.failAt = pure.received + 1
    /\ RouteStep([pure EXCEPT !.pc = "failed",
                              !.events = Append(@, [event |-> "error",
                                                    message |-> "stream failed"])])

(* after the loop: clean, replace the slide, serialize, check, 'done' *)
StreamDone ==
    /\ Streaming
    /\ StreamDrained(pure.received, pure.plan)
    /\ LET newContent == Cleaned(pure.fullText)
           at == pure.request.slideIndex + 1
           deck == [pure.deck EXCEPT !.slides[at].content = newContent]
           newIssues == Checked(deck.slides[at])
       IN  RouteStep([pure EXCEPT
               !.pc = "done", !.deck = deck,
               !.checks = Append(@, [content |-> newContent, streamed |-> pure.fullText,
                                     opened |-> TRUE]),
               !.events = Append(@, [event |-> "done", markdown |-> stringifySlidev(deck),
                                     layoutIssues |-> newIssues])])

(* the editor reads the next event: only one that carries markdown is used *)
ClientReads ==
    /\ pure.fn = "edit-slide" /\ pure.client.connected
    /\ pure.client.read < Len(pure.events)
    /\ LET data == pure.events[pure.client.read + 1]
           used == "markdown" \in DOMAIN data /\ data.markdown # <<>>
       IN  RouteStep([pure EXCEPT
               !.client.read = @ + 1,
               !.client.markdown = IF used THEN data.markdown ELSE @,
               !.client.layoutIssues = IF used THEN data.layoutIssues ELSE @])

(* the user cancels the edit: the request is dropped *)
ClientCancels ==
    /\ Streaming /\ pure.client.connected
    /\ RouteStep([pure EXCEPT !.client.connected = FALSE])

(* a write on the closed connection throws into the route's catch *)
WriteFails ==
    /\ Streaming /\ ~pure.client.connected
    /\ pure.received >= 1
    /\ RouteStep([pure EXCEPT !.pc = "failed"])

StreamNext ==
    NextChunk \/ StreamFails \/ StreamDone \/ ClientReads \/ ClientCancels \/ WriteFails

StreamSpec == StreamInit /\ [][StreamNext]_vars

(* C25: cancelling an edit aborts the collaborator call in flight, and the *)
(* deck the caller holds is never updated with a partly received or failed *)
(* edit: it changes only after an edit has completed.                      *)
C25_CancelAborts ==
    [][pure.fn = "edit-slide"
       => /\ ~pure.client.connected => pure'.received = pure.received
          /\ pure'.client.markdown # pure.client.markdown
             => /\ pure'.pc = "done"
                /\ pure.events[pure'.client.read].event = "done"]_vars

(* C26: with a streamed response the issue detector runs only after the    *)
(* stream is drained: no check sees content built from a strict prefix of  *)
(* the stream, and if the stream fails midway there is no check and no     *)
(* deck update.                                                            *)
C26_CheckAfterDrain ==
    pure.fn = "edit-slide"
    => /\ \A i \in 1..Len(pure.checks) :
             pure.checks[i].opened => pure.checks[i].streamed = Flatten(pure.plan.chunks)
       /\ pure.pc = "failed"
          => /\ \A i \in 1..Len(pure.checks) : ~pure.checks[i].opened
             /\ pure.deck = pure.parsed
             /\ pure.client.markdown = pure.request.markdown

(* a stream of several chunks that failed after its first chunk *)
C26_FailedMidway ==
    /\ pure.fn = "edit-slide" /\ pure.pc = "failed"
    /\ pure.received >= 1 /\ pure.plan.failAt = pure.received + 1
    /\ Len(pure.plan.chunks) > pure.received

(***************************************************************************)
(* Claims about splitCrowdedSlide.                                         *)
(***************************************************************************)
IsSplit(r) == run[r].op = "splitCrowdedSlide"

(* position k of the given deck, as a position of the deck after slide i   *)
(* (0-based) was replaced by n bodies                                      *)
MovedTo(k, i, n) == IF k <= i THEN k ELSE k + n - 1

(* C28: splitCrowdedSlide on a slide that exists makes exactly one         *)
(* collaborator call (none when the slide is not found).  When the call    *)
(* yields N >= 1 bodies for slide i of a deck of length L, the result is a *)
(* deck of length L + N - 1 in which positions i..i+N-1 hold the bodies in *)
(* order, every other slide is kept in its relative order, and the indices *)
(* are contiguous.  When the call fails the result is a failure without a  *)
(* deck.                                                                   *)
C28_SplitInPlace ==
    \A r \in Callers :
        IsSplit(r) =>
            LET rn == run[r]
                L == Len(rn.deck.slides)
                i == rn.slideIndex
            IN  /\ Len(rn.calls) = IF rn.currentSlide = None THEN 0 ELSE 1
                /\ Len(rn.responses) <= Len(rn.calls)
                /\ Finished(r) /\ rn.responses # <<>> /\ IsText(rn.responses[1])
                   => LET bodies == splitSlideBodies(rn.responses[1][1])
                          N == Len(bodies)
                      IN  N >= 1
                          => /\ rn.result[1].success
                             /\ LET deck == rn.result[1].data[1]
                                IN  /\ Len(deck.slides) = L + N - 1
                                    /\ \A k \in 1..N : deck.slides[i + k].content = bodies[k]
                                    /\ \A k \in 1..L :
                                          k # i + 1
                                          => deck.slides[MovedTo(k, i, N)] =
                                                [rn.deck.slides[k] EXCEPT
                                                    !.index = MovedTo(k, i, N) - 1]
                                    /\ IndexedByPosition(deck)
                                    /\ deck.frontmatter = rn.deck.frontmatter
                /\ Finished(r) /\ rn.responses # <<>> /\ ~IsText(rn.responses[1])
                   => /\ ~rn.result[1].success
                      /\ rn.result[1].data = None

(* the first slide of two was split into three: four slides, the old       *)
(* second slide now last                                                   *)
C28_SplitInThree ==
    \E r \in Callers :
        /\ IsSplit(r) /\ Finished(r) /\ run[r].result[1].success
        /\ run[r].slideIndex = 0 /\ Len(run[r].deck.slides) = 2
        /\ Len(run[r].result[1].data[1].slides) = 4
        /\ run[r].result[1].data[1].slides[4].content = run[r].deck.slides[2].content

(***************************************************************************)
(* Claims about the calls editSlideWithFeedback makes.                     *)
(***************************************************************************)
Failure(response) == ~IsText(response)

(* C29: no partial retries.  Once a collaborator call of an                *)
(* editSlideWithFeedback invocation has failed, the invocation makes no    *)
(* further collaborator call and no further layout check: the failure is   *)
(* its last event, the content, issues and iteration count stay as they    *)
(* were, and the result is returned at once.                               *)
C29_NoRetry ==
    /\ [](\A r \in Callers :
            IsEdit(r) =>
                \A k \in 1..Len(run[r].responses) :
                    Failure(run[r].responses[k])
                    => /\ k = Len(run[r].responses)
                       /\ Len(run[r].calls) = k
                       /\ Finished(r) /\ run[r].terminal = "Failed"
                       /\ ~run[r].result[1].success)
    /\ [][\A r \in Callers :
            (/\ IsEdit(r) /\ run[r].pc \in {"awaitEdit", "awaitFix"}
             /\ Len(run'[r].responses) = Len(run[r].responses) + 1
             /\ Failure(run'[r].responses[Len(run'[r].responses)]))
            => /\ run'[r].calls = run[r].calls
               /\ run'[r].layoutIssues = run[r].layoutIssues
               /\ run'[r].currentContent = run[r].currentContent
               /\ run'[r].iterations = run[r].iterations
               /\ run'[r].pc = "done"]_vars

(* the first fix call failed while issues were left and the iteration      *)
(* budget was not spent                                                    *)
C29_FirstFixFailed ==
    \E r \in Callers :
        /\ IsEdit(r) /\ Finished(r) /\ Len(run[r].responses) = 2
        /\ Failure(run[r].responses[2])
        /\ run[r].autoFix /\ run[r].layoutIssues # <<>>
        /\ run[r].iterations = 1 /\ run[r].maxIterations = 3

(* C30: a fix call is issued only when autoFix is true, the current issue  *)
(* list is not empty and iterations < maxIterations; every fix call        *)
(* receives the current content (the cleaned text of the latest response)  *)
(* with exactly the issues the latest check found on it, and the initial   *)
(* edit call receives the slide's content with an empty issue list.        *)
C30_FixCallArguments ==
    \A r \in Callers :
        IsEdit(r) =>
            \A k \in 1..Len(run[r].calls) :
                LET call == run[r].calls[k]
                IN  IF k = 1
                    THEN /\ call.fn = "editSlide"
                         /\ call.issues = <<>>
                         /\ call.content = run[r].deck.slides[run[r].slideIndex + 1].content
                    ELSE /\ call.fn = "fixLayoutIssues"
                         /\ run[r].autoFix
                         /\ k - 1 < run[r].maxIterations
                         /\ IsText(run[r].responses[k - 1])
                         /\ call.content = Cleaned(run[r].responses[k - 1][1])
                         /\ call.issues = IssuesOn(r, run[r].responses[k - 1][1])
                         /\ call.issues # <<>>

(* a second fix call whose issue list differs from the first fix call's *)
C30_SecondFixCall ==
    \E r \in Callers :
        /\ IsEdit(r) /\ run[r].pc = "awaitFix" /\ Len(run[r].calls) = 3
        /\ run[r].calls[3].issues # run[r].calls[2].issues
        /\ run[r].calls[3].issues = run[r].layoutIssues

(***************************************************************************)
(* Claims about the bullet count.                                          *)
(***************************************************************************)
(* a line that starts, after blanks, with -, * or +, or with digits and a dot *)
IsListLine(line) ==
    LET w == RunEnd(line, 1, IsSpace)
        d == RunEnd(line, w, IsDigit)
    IN  /\ w <= Len(line)
        /\ \/ IsBulletMarker(line[w])
           \/ d > w /\ d <= Len(line) /\ line[d] = "."

ListLines(content) ==
    LET lines == SplitOn(content, NL)
    IN  Cardinality({i \in 1..Len(lines) : IsListLine(lines[i])})

(* C31: the bullet count of the too-many-bullets check is the number of    *)
(* list lines of the slide (lines that start with -, * or + or with a      *)
(* numbered-list marker): the issue is reported exactly when that number   *)
(* exceeds maxBulletsPerSlide and carries that number; a number followed   *)
(* by a dot in the middle of a line counts for nothing.                    *)
C31_CountsListLines ==
    pure.fn = "checkSlideLayout" /\ pure.issues # None
    /\ pure.shape \in {"bullets", "numbered", "prose"}
    => LET t == MergeConfig(pure.config).maxBulletsPerSlide
           found == OfType(pure.issues[1], "too-many-bullets")
           lines == ListLines(pure.slide.content)
       IN  IF lines <= t THEN found = <<>>
           ELSE Len(found) = 1 /\ found[1].meta = <<"bulletCount", lines>>

(***************************************************************************)
(* The orchestrator's instance state: generatePresentation and             *)
(* importFromMarkdown, next to the operations above.  The history is the   *)
(* list generatePresentation pushes its results on.                        *)
(***************************************************************************)
MaxHistory == 2

(* texts generateText answers a generatePresentation prompt with *)
GenerateResponses ==
    {TextTwoSlides, HeadTitle \o TextGood, HeadMalformed \o BodyPlain}

HistoryDecks == {Deck2}
HistoryIndexes == {0, 2}
HistoryOptions == {[autoFix |-> None, maxIterations |-> Some(2)]}
HistoryResponses == {TextShort, TextBullets10}
HistoryThrowables == {[isError |-> TRUE, message |-> "timeout"]}

(* parseSlidev(markdown) of the cleaned texts, and the checks of their slides *)
HistoryTables(config) ==
    The({LET clean == [t \in GenerateResponses |-> cleanMarkdownOutput(t)]
             parse == [m \in {clean[t] : t \in GenerateResponses} |-> parseSlidevOutcome(m)]
             decks == {parse[m].deck : m \in {n \in DOMAIN parse : parse[n].ok}}
             slides == UNION {{d.slides[i] : i \in 1..Len(d.slides)} : d \in decks}
         IN  [clean |-> [t \in DOMAIN base.clean \cup GenerateResponses |->
                            IF t \in DOMAIN base.clean THEN base.clean[t] ELSE clean[t]],
              check |-> [sl \in DOMAIN base.check \cup slides |->
                            IF sl \in DOMAIN base.check THEN base.check[sl]
                            ELSE checkSlideLayout(sl, config)],
              parse |-> parse] :
            base \in {Tabulate(config)}})

ParsedOutcome(markdown) == tables.parse[markdown]

HistoryInit ==
    /\ layoutConfig = ConstructLayoutConfig(<<>>)
    /\ tables = HistoryTables(layoutConfig)
    /\ state = InitialState
    /\ run = [r \in Callers |-> IdleRun]
    /\ pure = None

(* this.state.history.push(result) *)
Pushed_replacesLast(history, result) ==
    IF history = <<>> THEN <<result>> ELSE [history EXCEPT ![Len(history)] = result]
Pushed(history, result) == Append(history, result)

(* a step of generatePresentation: the run record and the instance state *)
StateStep(r, rn, st) ==
    /\ run' = [run EXCEPT ![r] = rn]
    /\ state' = st
    /\ UNCHANGED <<layoutConfig, tables, pure>>

(* generatePresentation up to its await: currentOperation is set first *)
InvokeGeneratePresentation(r) ==
    /\ run[r].pc = "idle"
    /\ Len(state.history) < MaxHistory
    /\ StateStep(r, [IdleRun EXCEPT !.op = "generatePresentation", !.pc = "awaitGenerate",
                                    !.calls = <<Call("generatePresentation", <<>>, <<>>)>>],
                 [state EXCEPT !.currentOperation = Some("generate_slides")])

(* the failure result of the catch block, pushed on the history *)
GenerateFailed(r, response, thrown) ==
    LET result == ToolCallResult("generate_slides", FALSE, None, Some(ErrorMessage(thrown)))
    IN  StateStep(r, [run[r] EXCEPT !.pc = "done", !.terminal = "Failed",
                                    !.responses = Append(@, response),
                                    !.result = Some(result)],
                  [state EXCEPT !.history = Pushed(@, result)])

(* the collaborator resolved: parseSlidev, checkDeckLayout, state, push *)
GeneratePresentationResolves(r) ==
    /\ run[r].pc = "awaitGenerate"
    /\ \E text \in GenerateResponses :
          LET parsed == ParsedOutcome(Cleaned(text))
          IN  IF ~parsed.ok
              THEN GenerateFailed(r, Some(text), [isError |-> TRUE, message |-> parsed.error])
              ELSE LET issues == CheckedDeck(parsed.deck.slides)
                       result == ToolCallResult("generate_slides", TRUE, Some(parsed.deck), None)
                   IN  StateStep(r, [run[r] EXCEPT !.pc = "done", !.terminal = "Done",
                                                   !.responses = Append(@, Some(text)),
                                                   !.layoutIssues = issues,
                                                   !.result = Some(result)],
                                 [state EXCEPT !.deck = Some(parsed.deck),
                                               !.layoutIssues = issues,
                                               !.history = Pushed(@, result)])

GeneratePresentationRejects(r) ==
    /\ run[r].pc = "awaitGenerate"
    /\ \E thrown \in Throwables : GenerateFailed(r, <<"throw", thrown>>, thrown)

(* importFromMarkdown(markdown): a text parseSlidev throws on leaves the   *)
(* state as it was                                                         *)
ImportFromMarkdown ==
    /\ \E text \in GenerateResponses :
          LET parsed == ParsedOutcome(Cleaned(text))
          IN  /\ parsed.ok
              /\ state' = [state EXCEPT !.deck = Some(parsed.deck)]
    /\ UNCHANGED <<layoutConfig, run, tables, pure>>

HistoryCallerNext(r) ==
    \/ InvokeGeneratePresentation(r)
    \/ GeneratePresentationResolves(r)
    \/ GeneratePresentationRejects(r)
    \/ InvokeEditSlideWithFeedback(r, HistoryDecks, HistoryIndexes, HistoryOptions)
    \/ EditSlideResolves(r, HistoryResponses)
    \/ FixLayoutIssuesResolves(r, HistoryResponses)
    \/ CollaboratorRejects(r, HistoryThrowables)
    \/ InvokeAddDiagramToSlide(r)
    \/ GenerateDiagramSettles(r)
    \/ InvokeAddImageToSlide(r)
    \/ GenerateImageSettles(r)
    \/ InvokeFixSlideLayout(r)
    \/ FixSlideLayoutResolves(r)
    \/ InvokeSplitCrowdedSlide(r)
    \/ SplitSlideResolves(r)
    \/ ToolCallRejects(r)
    \/ Returned(r)

HistoryNext == HistoryCallerNext("a") \/ CheckDeckLayout \/ ImportFromMarkdown \/ ClearState

HistorySpec == HistoryInit /\ [][HistoryNext]_vars

Awaiting(r) ==
    run[r].pc \in {"awaitGenerate", "awaitEdit", "awaitFix", "awaitGenerated",
                   "awaitLayoutFix", "awaitSplit"}

(* C32: the call history is append-only.  No step of the orchestrator      *)
(* removes or changes an entry already recorded, and every operation that  *)
(* awaited the collaborator and completes, with success or failure,        *)
(* appends exactly one entry: its result.                                  *)
C32_HistoryAppendOnly ==
    [][/\ Len(state'.history) >= Len(state.history)
       /\ SubSeq(state'.history, 1, Len(state.history)) = state.history
       /\ \A r \in Callers :
             Awaiting(r) /\ run'[r].pc = "done"
             => state'.history = Append(state.history, run'[r].result[1])]_vars

(* the collaborator calls of caller r that completed successfully *)
Successes(r) == Cardinality({k \in 1..Len(run[r].responses) : IsText(run[r].responses[k])})

(* C33: in every result of editSlideWithFeedback, iterations is the number *)
(* of collaborator calls that completed successfully in the invocation;    *)
(* the invocation made iterations calls when it returns success and        *)
(* iterations + 1 calls when it returns the failure of a collaborator      *)
(* call.                                                                   *)
C33_IterationsCountCalls ==
    \A r \in Callers :
        IsEdit(r) /\ Finished(r) =>
            LET result == run[r].result[1]
            IN  /\ result.iterations = Successes(r)
                /\ result.success => Len(run[r].calls) = result.iterations
                /\ run[r].terminal = "Failed"
                   => ~result.success /\ Len(run[r].calls) = result.iterations + 1

(* a failure returned by the third call, after two successful ones *)
C33_FailedThirdCall ==
    \E r \in Callers :
        /\ IsEdit(r) /\ Finished(r) /\ ~run[r].result[1].success
        /\ run[r].result[1].iterations = 2 /\ Len(run[r].calls) = 3

(* C34: result consistency.  Whenever editSlideWithFeedback returns after  *)
(* at least one successful collaborator call, with success or failure, the *)
(* returned layoutIssues are the issues of a check of the slide with the   *)
(* returned content and its original layout tag, and the returned content  *)
(* is the cleaned text of the last successful response.                    *)
C34_IssuesOfReturnedContent ==
    \A r \in Callers :
        IsEdit(r) /\ Finished(r) /\ Successes(r) >= 1 =>
            LET result == run[r].result[1]
                original == run[r].deck.slides[run[r].slideIndex + 1]
                last == run[r].responses[Successes(r)]
            IN  /\ IsText(last)
                /\ result.content = Cleaned(last[1])
                /\ result.layoutIssues = Checked([original EXCEPT !.content = result.content])

(* the budget ran out on the cover slide with issues left after two fixes *)
C34_ExhaustedWithIssues ==
    \E r \in Callers :
        /\ IsEdit(r) /\ Finished(r) /\ run[r].terminal = "Exhausted"
        /\ run[r].deck.slides[run[r].slideIndex + 1].layout # None
        /\ run[r].result[1].layoutIssues # <<>>
        /\ run[r].result[1].iterations = 3
        /\ run[r].responses[3] # run[r].responses[2]

DeckOperations ==
    {"editSlideWithFeedback", "addDiagramToSlide", "addImageToSlide", "fixSlideLayout",
     "splitCrowdedSlide"}

(* C35: a step of editSlideWithFeedback, addDiagramToSlide,                *)
(* addImageToSlide, fixSlideLayout or splitCrowdedSlide (its entry, or the *)
(* settling of its collaborator call with success or failure) leaves the   *)
(* instance state (stored deck, stored layoutIssues, history) and the deck *)
(* it was given as they were; the instance state changes only in steps of  *)
(* generatePresentation, checkDeckLayout, importFromMarkdown and           *)
(* clearState.                                                             *)
C35_DeckOperationsKeepState ==
    [][\A r \in Callers :
          /\ run'[r] # run[r] /\ run'[r].op \in DeckOperations
             => /\ state' = state
                /\ run[r].op \in DeckOperations => run'[r].deck = run[r].deck
          /\ state' # state
             => \/ run' = run
                \/ run'[r] = run[r]
                \/ run'[r].op = "generatePresentation"]_vars

(* a split returned its deck while the orchestrator holds a generated deck, *)
(* its issues and a history entry                                          *)
C35_SplitBesideStoredDeck ==
    \E r \in Callers :
        /\ run[r].op = "splitCrowdedSlide" /\ Finished(r) /\ run[r].result[1].success
        /\ state.deck # None /\ state.history # <<>> /\ state.layoutIssues # <<>>
        /\ run[r].result[1].data[1] # run[r].deck

(* C36: every slide of a deck returned by a successful splitCrowdedSlide   *)
(* has a defined string content, and the deck has at least as many slides  *)
(* as the deck given, also when the collaborator's response splits into    *)
(* zero bodies.                                                            *)
C36_SplitContentsDefined ==
    \A r \in Callers :
        IsSplit(r) /\ Finished(r) /\ run[r].result[1].success =>
            LET deck == run[r].result[1].data[1]
            IN  /\ Len(deck.slides) >= Len(run[r].deck.slides)
                /\ \A i \in 1..Len(deck.slides) : deck.slides[i].content # Undefined

(* C37: cleanMarkdownOutput never deletes slide content.  For a response   *)
(* without a fence that is clean markdown already (a slide, a deck whose   *)
(* first slide is one short line followed by a separator line, a slide     *)
(* whose first line is followed by a table rule) the output is the trimmed *)
(* input.                                                                  *)
C37_CleanKeepsContent ==
    pure.fn = "cleanMarkdownOutput" /\ pure.once # None /\ pure.text \in CleanTexts
    => pure.once[1] = Trim(pure.text)

(***************************************************************************)
(* The preview server of the backend: the module variables slidevProcess   *)
(* and slidevReady, startSlidev, stopSlidev, and the events of the child   *)
(* processes.  A child is a position in children; slidevProcess is the     *)
(* position of the tracked child, 0 for null.  kill() only sends the       *)
(* signal: the child's exit event comes later, and until then its timer    *)
(* and its output handler are still armed.                                 *)
(***************************************************************************)
MaxSpawns == 3

(* spawn(...), setTimeout(..., 10000), new Promise *)
SpawnedChild == [status |-> "alive", timer |-> "pending", promise |-> "pending"]

Backend(slidevProcess, slidevReady, children, reused) ==
    [fn |-> "preview", slidevProcess |-> slidevProcess, slidevReady |-> slidevReady,
     children |-> children, reused |-> reused]

PreviewInit ==
    /\ OrchestratorIdle
    /\ pure = Backend(0, FALSE, <<>>, FALSE)

BackendStep(next) ==
    /\ pure.fn = "preview"
    /\ pure' = next
    /\ UNCHANGED <<layoutConfig, state, run, tables>>

(* slidevProcess.kill() *)
Killed(children, p) ==
    [children EXCEPT ![p].status = IF @ = "alive" THEN "killed" ELSE @]

(* clearTimeout(timeout) *)
TimerCleared(children, p) ==
    [children EXCEPT ![p].timer = IF @ = "pending" THEN "cleared" ELSE @]

(* resolve(...) / reject(err): a settled promise stays as it is *)
Settled(children, p, outcome) ==
    [children EXCEPT ![p].promise = IF @ = "pending" THEN outcome ELSE @]

(* if (slidevProcess && slidevReady) return { url, started: false } *)
StartSlidevReuses ==
    /\ pure.fn = "preview"
    /\ pure.slidevProcess # 0 /\ pure.slidevReady
    /\ BackendStep([pure EXCEPT !.reused = TRUE])

(* slidevProcess = null in the 'error' and 'exit' handlers of child p *)
TrackingExit(p, slidevProcess) == 0

(* if (slidevProcess) { kill; null; false }, then spawn and the handlers *)

StartSlidevSpawns ==
    /\ pure.fn = "preview"
    /\ ~(pure.slidevProcess # 0 /\ pure.slidevReady)
    /\ Len(pure.children) < MaxSpawns
    /\ LET children == IF pure.slidevProcess # 0
                       THEN Killed(pure.children, pure.slidevProcess) ELSE pure.children
       IN  BackendStep([pure EXCEPT
               !.children = Append(children, SpawnedChild),
               !.slidevProcess = Len(children) + 1,
               !.slidevReady = IF pure.slidevProcess # 0 THEN FALSE ELSE @])

StopSlidev ==
    /\ pure.fn = "preview"
    /\ pure.slidevProcess # 0
    /\ BackendStep([pure EXCEPT !.children = Killed(@, pure.slidevProcess),
                                !.slidevProcess = 0, !.slidevReady = FALSE])

(* stdout 'data' with the start message of child p *)
StdoutReady(p) ==
    /\ pure.fn = "preview"
    /\ p \in 1..Len(pure.children)
    /\ pure.children[p].status \in {"alive", "killed"}
    /\ BackendStep([pure EXCEPT
           !.children = Settled(TimerCleared(@, p), p, "resolved"),
           !.slidevReady = TRUE])

(* the 10 s timer of child p *)
TimeoutFires(p) ==
    /\ pure.fn = "preview"
    /\ p \in 1..Len(pure.children)
    /\ pure.children[p].timer = "pending"
    /\ LET fired == [pure.children EXCEPT ![p].timer = "fired"]
       IN  BackendStep([pure EXCEPT
               !.children = IF pure.slidevReady THEN fired
                            ELSE Settled(fired, p, "resolved"),
               !.slidevReady = TRUE])

(* 'error' of child p: it could not be spawned *)
ErrorEvent(p) ==
    /\ pure.fn = "preview"
    /\ p \in 1..Len(pure.children)
    /\ pure.children[p].status = "alive"
    /\ BackendStep([pure EXCEPT
           !.children = Settled(TimerCleared([@ EXCEPT ![p].status = "failed"], p),
                                p, "rejected"),
           !.slidevProcess = TrackingExit(p, @), !.slidevReady = FALSE])

(* 'exit' of child p, after a kill or by itself *)
ExitEvent(p) ==
    /\ pure.fn = "preview"
    /\ p \in 1..Len(pure.children)
    /\ pure.children[p].status \in {"alive", "killed"}
    /\ BackendStep([pure EXCEPT
           !.children = TimerCleared([@ EXCEPT ![p].status = "exited"], p),
           !.slidevProcess = TrackingExit(p, @), !.slidevReady = FALSE])

PreviewNext ==
    \/ StartSlidevReuses
    \/ StartSlidevSpawns
    \/ StopSlidev
    \/ \E p \in 1..MaxSpawns : StdoutReady(p)
    \/ \E p \in 1..MaxSpawns : TimeoutFires(p)
    \/ \E p \in 1..MaxSpawns : ErrorEvent(p)
    \/ \E p \in 1..MaxSpawns : ExitEvent(p)

PreviewSpec == PreviewInit /\ [][PreviewNext]_vars

(* timers fire unless cleared, and a killed child exits *)
KilledExits ==
    \E p \in 1..MaxSpawns :
        pure.fn = "preview" /\ p \in 1..Len(pure.children)
        /\ pure.children[p].status = "killed" /\ ExitEvent(p)

PreviewFairSpec ==
    /\ PreviewSpec
    /\ WF_vars(\E p \in 1..MaxSpawns : TimeoutFires(p))
    /\ WF_vars(KilledExits)

(***************************************************************************)
(* Claims about the preview server.                                        *)
(***************************************************************************)
Children == IF pure.fn = "preview" THEN 1..Len(pure.children) ELSE {}

Alive(p) == pure.children[p].status = "alive"

(* C38: under any interleaving of startSlidev, stopSlidev and the          *)
(* children's ready, timeout, error and exit events, at most one child     *)
(* that was not killed is alive, slidevProcess refers to it while it is    *)
(* alive, and the late exit event of a killed older child never clears the *)
(* tracking of a newer one.                                                *)
C38_OneTrackedChild ==
    /\ [](Cardinality({p \in Children : Alive(p)}) <= 1)
    /\ [](\A p \in Children : Alive(p) => pure.slidevProcess = p)
    /\ [][\A p \in Children :
            (/\ pure.children[p].status = "killed"
             /\ pure'.children[p].status = "exited"
             /\ pure.slidevProcess \notin {0, p})
            => pure'.slidevProcess = pure.slidevProcess]_vars

(* C39: slidevReady = true implies that slidevProcess is not null, so      *)
(* preview-status reports running only while a child is tracked.           *)
C39_ReadyImpliesTracked ==
    pure.fn = "preview" /\ pure.slidevReady => pure.slidevProcess # 0

(* C40: every startSlidev call settles: the promise of every child it      *)
(* spawned is resolved or rejected at some time, also when a second        *)
(* startSlidev or a stopSlidev kills the child before it is ready.         *)
C40_StartSettles ==
    \A p \in 1..MaxSpawns :
        (p \in Children /\ pure.children[p].promise = "pending")
            ~> (p \in Children /\ pure.children[p].promise # "pending")

====
